---- MODULE Spec2Model ----
(***************************************************************************)
(* ChatOver: the chat session controller (src/content/chat/ChatManager.js) *)
(* as a state machine.  JavaScript runs every callback to completion, so   *)
(* one action is one run-to-completion segment: a public call up to its    *)
(* first await, the continuation after an await, a transport event         *)
(* handler, or a timer callback.                                           *)
(*                                                                         *)
(* The transport (youtubei.js) is the environment: every getLiveChat()     *)
(* yields a fresh handle, a handle that has listeners may emit any event   *)
(* at any time (responses in flight outlive stop()), and lookups resolve   *)
(* or reject in any order.                                                 *)
(*                                                                         *)
(* The specifications share the variables:                                 *)
(*   Spec        the session lifecycle: connect, disconnect, transport     *)
(*               events and retry timers; subscriber callbacks record what *)
(*               they receive and do not call back into the controller;    *)
(*   SpecSend    sendMessage against the lifecycle operations that change  *)
(*               what it reads;                                            *)
(*   SpecEmit    one _emit at a time, callback by callback, with callbacks *)
(*               that throw or call on() and off();                        *)
(*   SpecRender  the message renderer (MessageRenderer.js) and its         *)
(*               container element;                                        *)
(*   SpecParse   the message parser (MessageParser.js), a pure function:   *)
(*               the raw event is drawn at the start and parsed once;      *)
(*   SpecReentrant  the lifecycle with subscriber callbacks that call      *)
(*               connect() and disconnect() while they are published to;   *)
(*   SpecEvict   the renderer's eviction loop, one iteration at a time;    *)
(*   SpecEscape  the escaping of one string interpolated into the markup   *)
(*               of a message, the string and the place drawn at the start;*)
(*   SpecPage    the content script (content/index.js): overlay toggles,   *)
(*               navigations and the listeners it installs on the manager; *)
(*   SpecSettings  the settings store (SettingsManager.js) with its        *)
(*               debounced save;                                           *)
(*   SpecBoot    the init sessions and tokens of the content script;       *)
(*   SpecPanel   the settings panel (SettingsPanel.js) and openSettings.   *)
(***************************************************************************)
EXTENDS FiniteSets, Integers, Sequences, TLC

\* ---------------------------------------------------------------- bounds
MaxCalls == 2    \* connect() invocations in one behaviour
MaxTimers == 1   \* retry timers pending at once
MaxRegs == 2     \* callbacks registered at once, over all channels
MaxSends == 1    \* sendMessage() invocations in one behaviour
MaxLimit == 3    \* largest maxMessages given to the renderer
MaxNodes == 4    \* elements the renderer creates in one behaviour
RowHeight == 40  \* height of a node of the message surface, px
ViewHeight == 40 \* height of the message surface's viewport, px
MaxDepth == 2    \* calls the subscriber callbacks make in one segment
MaxBelow == 1    \* setMaxMessages is given bounds down to -MaxBelow in the
                 \* stepwise loop
MaxText == 2     \* characters of a string interpolated into message markup
MaxSets == 3     \* setSetting calls in one behaviour
MaxValue == 2    \* values a setting is given besides its default
MaxSessions == 3 \* init() calls of the content script in one behaviour
MaxTries == 2    \* failed attempts of one session to insert the button
MaxPanels == 3   \* SettingsPanel objects made in one behaviour
MaxElements == 3 \* panel elements created in one behaviour

\* ------------------------------------------------------------- constants
Null == "null"

DISCONNECTED == "disconnected"
CONNECTING == "connecting"
CONNECTED == "connected"
ERROR == "error"
ENDED == "ended"

ConnectionState == {DISCONNECTED, CONNECTING, CONNECTED, ERROR, ENDED}

Channels == {"message", "state", "error", "metadata"}

RetryDelayMs == 2000

\* MessageRenderer: the default bound and the near-bottom distance, px.
DEFAULT_MAX_MESSAGES == 50
NearBottomPx == 50

\* The message of the Error connect() throws when the info has no live chat.
NoLiveChatText == "This video does not have live chat available"

Calls == 1..MaxCalls
\* Call c obtains transport handle c: getLiveChat() returns a new object
\* on every call.  0 stands for "no handle" (this.livechat === null).
Handles == 1..MaxCalls
Videos == {"vA", "vB"}
Callbacks == {"cb1"}

\* ------------------------------------------------------ transport inputs
\* Error texts the transport may report, each with the substrings tested by
\* the controller ("Failed to fetch", "NetworkError", "DimChatItemAction",
\* "sendMessage", "not allowed", "permission", and sendMessage's
\* "subscriber") that it contains.
Contained ==
    [t \in {"TypeError: Failed to fetch",
            "NetworkError when attempting to fetch resource.",
            "DimChatItemAction",
            "sendMessage failed",
            "You are not allowed to chat",
            "Insufficient permission",
            "Chat is in subscriber only mode",
            "Failed to fetch: permission",
            "Unexpected response"} |->
        CASE t = "TypeError: Failed to fetch" -> {"Failed to fetch"}
          [] t = "NetworkError when attempting to fetch resource." -> {"NetworkError"}
          [] t = "DimChatItemAction" -> {"DimChatItemAction"}
          [] t = "sendMessage failed" -> {"sendMessage"}
          [] t = "You are not allowed to chat" -> {"not allowed"}
          [] t = "Insufficient permission" -> {"permission"}
          [] t = "Chat is in subscriber only mode" -> {"subscriber"}
          [] t = "Failed to fetch: permission" -> {"Failed to fetch", "permission"}
          [] OTHER -> {}]

ErrorTexts == DOMAIN Contained

\* String.prototype.includes on the texts above.
Includes(text, pattern) == pattern \in Contained[text]

\* Chat actions of the transport: the action kind and the item's subtype.
ChatActions ==
    {[kind |-> "AddChatItemAction", item |-> "LiveChatTextMessage"],
     [kind |-> "AddChatItemAction", item |-> "LiveChatViewerEngagementMessage"],
     [kind |-> "AddChatItemAction", item |-> Null],
     [kind |-> "RemoveChatItemAction", item |-> Null]}

\* A name for each of them: the item's subtype, or the kind of an action
\* that adds no item.
ActionName(action) ==
    IF action.kind = "AddChatItemAction" /\ action.item # Null
    THEN action.item
    ELSE IF action.kind = "AddChatItemAction" THEN "AddChatItemAction without item"
    ELSE action.kind

\* Texts given to sendMessage, as their characters.
Chars ==
    [t \in {"", "  ", "hi", " hi "} |->
        CASE t = "" -> <<>>
          [] t = "  " -> <<" ", " ">>
          [] t = "hi" -> <<"h", "i">>
          [] t = " hi " -> <<" ", "h", "i", " ">>]

Texts == DOMAIN Chars

Whitespace == {" "}

Sends == 1..MaxSends

VARIABLES
    innertube,        \* this.innertube: Null or the client
    livechat,         \* this.livechat: 0 (null) or a handle
    videoId,          \* this.videoId
    connectionState,  \* this.connectionState
    listeners,        \* this.listeners: channel -> sequence of callbacks
    handles,          \* transport handles: created, running, attached
    calls,            \* connect() invocations: pc, videoId, states published
    timers,           \* pending retry timers in the order set: the handle whose handler
                      \* set each, and the handle the controller held then
    overlapped,       \* history: a connect() was issued while another was awaiting
    last,             \* history: the segment that ran last and what it started from
    emitted,          \* callbacks invoked by the last segment, in order
    trace,            \* transport and timer calls made by the last segment, in order
    sends,            \* sendMessage() invocations: pc, the value resolved with, and
                      \* (history) the stream id when the last segment began
    emission,         \* the forEach of an _emit in progress: the array it walks,
                      \* whether that array is still this.listeners[event], the
                      \* length read at the start, the next index; and (history)
                      \* the registrations at the start, the callbacks invoked,
                      \* the throws caught
    renderer,         \* the MessageRenderer and its container element
    rlast,            \* history: the renderer operation that ran last, the log it
                      \* started from, the records added since construction or the
                      \* last clear, and whether only additions have run so far
    rawEvent,         \* the raw event given to parseAction, with the clock and
                      \* the random value a generated id is made of
    parsed,           \* what parseAction did with it: pending, null, a Message,
                      \* or a TypeError thrown
    reaction,         \* what the subscriber callbacks do when called: nothing, or
                      \* a call of connect() or disconnect() on one published value
    observed,         \* history: a callback was called while the controller was
                      \* `connected` without a handle
    evicting,         \* the caller whose _enforceMaxMessages loop is running:
                      \* "addMessage" or "setMaxMessages", "idle" when none is
    escaping,         \* a string of a message, the place of the markup template it
                      \* is interpolated into, and the markup written for it
    page,             \* the content script: the overlay, whether there is a
                      \* message renderer, chatConnected
    settings,         \* the settings module: currentSettings, the save timer, the
                      \* storage area, a loadSettings call in flight
    boot,             \* the content script's init sessions: the flags, the init
                      \* timer, the current token, each session's position
    panel             \* the settings panel objects and the panel elements
                      \* attached to the video player

vars ==
    <<innertube, livechat, videoId, connectionState, listeners, handles, calls,
      timers, overlapped, last, emitted, trace, sends, emission, renderer, rlast,
      rawEvent, parsed, reaction, observed, evicting, escaping, page, settings,
      boot, panel>>

\* The variables of the parts other than the session lifecycle.
sendVars == <<sends>>
emitVars == <<emission>>
renderVars == <<renderer, rlast>>
parseVars == <<rawEvent, parsed>>
reentVars == <<reaction, observed>>
pageVars == <<reentVars, evicting, escaping, page, settings, boot, panel>>
notPage == <<sendVars, emitVars, renderVars, parseVars, reentVars, evicting, escaping, settings,
      boot, panel>>
others == <<sendVars, emitVars, renderVars, parseVars, pageVars>>

\* The lifecycle variables other than the subscriber registry.
sessionVars ==
    <<innertube, livechat, videoId, connectionState, handles, calls, timers,
      overlapped, last, emitted, trace>>

\* No raw event given to the parser.
NoEvent == [action |-> [kind |-> "none"], now |-> 0, random |-> ""]
NotParsed == [state |-> "pending"]

\* No _emit in progress.
NoEmission ==
    [active |-> FALSE, event |-> "", array |-> <<>>, aliased |-> FALSE,
     len |-> 0, k |-> 0,
     snapshot |-> <<>>, invoked |-> <<>>, caught |-> 0]

\* The controller and its environment as one value, so that the methods
\* below read like the source: each takes the world and returns the world.
This ==
    [innertube |-> innertube, livechat |-> livechat, videoId |-> videoId,
     connectionState |-> connectionState, listeners |-> listeners,
     handles |-> handles, timers |-> timers, emitted |-> <<>>, trace |-> <<>>,
     published |-> <<>>]

Commit(m) ==
    /\ innertube' = m.innertube
    /\ livechat' = m.livechat
    /\ videoId' = m.videoId
    /\ connectionState' = m.connectionState
    /\ listeners' = m.listeners
    /\ handles' = m.handles
    /\ timers' = m.timers
    /\ emitted' = m.emitted
    /\ trace' = m.trace

\* ChatManager._emit: every callback of the channel, in subscription order.
Emit(m, event, data) ==
    [m EXCEPT !.emitted = @ \o
        [i \in 1..Len(m.listeners[event]) |->
            [ch |-> event, cb |-> m.listeners[event][i], data |-> data]]]

\* ChatManager._setState; `published` lists the states the segment has set.
SetState(m, state) ==
    Emit([m EXCEPT !.connectionState = state, !.published = Append(@, state)],
         "state", state)

\* LiveChat.stop() / LiveChat.start() as the controller calls them.
Stop(m, h) ==
    [m EXCEPT !.handles[h].running = FALSE,
              !.trace = Append(@, [call |-> "stop", h |-> h, delay |-> 0])]

Start(m, h) ==
    [m EXCEPT !.handles[h].running = TRUE,
              !.trace = Append(@, [call |-> "start", h |-> h, delay |-> 0])]

\* Faulty variant of DisconnectBody: the stream id is kept.
DisconnectBodyKeepsVideo(m) ==
    LET m1 == IF m.livechat # 0
              THEN [Stop(m, m.livechat) EXCEPT !.livechat = 0]
              ELSE m
    IN  SetState(m1, DISCONNECTED)

\* ChatManager.disconnect
DisconnectBody(m) ==
    LET m1 == IF m.livechat # 0
              THEN [Stop(m, m.livechat) EXCEPT !.livechat = 0]
              ELSE m
    IN  SetState([m1 EXCEPT !.videoId = Null], DISCONNECTED)

\* new MessageRenderer(container, options) on an empty container;
\* option 0 stands for maxMessages absent or 0.
Constructor(option) ==
    [container |-> <<>>, destroyed |-> FALSE,
     maxMessages |-> IF option # 0 THEN option ELSE DEFAULT_MAX_MESSAGES,
     messages |-> <<>>, autoScroll |-> TRUE, scrollHandler |-> TRUE,
     scrollTop |-> 0, created |-> 0]

\* seen: the distance from the end at the last scroll event the handler
\* observed, -1 while it has observed none.
NewLog ==
    [op |-> "new", n |-> 0, arg |-> <<>>, threw |-> FALSE,
     before |-> <<>>, top |-> 0, max |-> 0, auto |-> TRUE,
     arrivals |-> <<>>, fresh |-> TRUE, seen |-> -1]

\* The controller after construction.
InitController ==
    /\ innertube = Null
    /\ livechat = 0
    /\ videoId = Null
    /\ connectionState = DISCONNECTED
    /\ listeners = [ch \in Channels |-> <<>>]
    /\ handles = [h \in Handles |->
                    [created |-> FALSE, running |-> FALSE, attached |-> 0]]
    /\ calls = [c \in Calls |-> [pc |-> "idle", videoId |-> Null, states |-> <<>>]]
    /\ timers = <<>>
    /\ overlapped = FALSE
    /\ last = [op |-> "new", id |-> 0, arg |-> "",
               state |-> DISCONNECTED, held |-> 0, pending |-> 0]
    /\ emitted = <<>>
    /\ trace = <<>>
    /\ sends = [s \in Sends |-> [pc |-> "idle", result |-> "", stream |-> Null]]
    /\ emission = NoEmission

\* The parser is not called.
NoParse ==
    /\ rawEvent = NoEvent
    /\ parsed = NotParsed

\* Subscriber callbacks that call nothing.
NoReaction == [event |-> "", data |-> "", call |-> "none"]

\* No string is being interpolated into message markup.
NoInsertion ==
    [field |-> "", context |-> "", text |-> <<>>, markup |-> <<>>, rendered |-> FALSE]

\* The content script before any overlay exists.  addCalls (history): the
\* addMessage calls made for what the manager published last.
NoPage ==
    [overlay |-> "none", messageRenderer |-> FALSE, chatConnected |-> FALSE,
     addCalls |-> 0]

\* Two of the settings stand for all; a value is 0, the default of every
\* key here, or one the user chose.
SettingKeys == {"messageFontSize", "avatarSize"}
SettingValues == 1..MaxValue
DEFAULT_SETTINGS == [k \in SettingKeys |-> 0]

\* The module after it is loaded: currentSettings, saveTimeout (the
\* number of pending save timers: clearTimeout leaves at most one), the
\* storage area, the loadSettings call awaiting storage.get with what the
\* read returned; and (history) the values set last, the setSetting
\* calls made, the storage writes, and the debounce windows opened.
NoSettings ==
    [current |-> DEFAULT_SETTINGS, pending |-> 0,
     stored |-> [present |-> FALSE, values |-> DEFAULT_SETTINGS],
     loading |-> FALSE, read |-> [present |-> FALSE, values |-> DEFAULT_SETTINGS],
     wanted |-> DEFAULT_SETTINGS, sets |-> 0, writes |-> 0, windows |-> 0]

\* The content script right after it is loaded, its init timer set.
\* Sessions are the calls of init(); retry: the session's insertButton
\* retry timer is pending; tries (history): the times its insertButton
\* found no place for the button; invalidated (history): cleanup() ran while the
\* session was awaiting or waiting to retry; staleAct (history): a session
\* set isInitialized, inserted the button or toggled the overlay while
\* invalidated or without holding the current token.
NoBoot ==
    [isInitialized |-> FALSE, isInitializing |-> FALSE, initTimer |-> TRUE,
     currentInitToken |-> 0, button |-> FALSE, overlayShown |-> FALSE,
     sessions |-> [i \in 1..MaxSessions |->
                     [pc |-> "idle", retry |-> FALSE, tries |-> 0,
                      invalidated |-> FALSE]],
     staleAct |-> FALSE]

\* No settings panel yet.  instances: the SettingsPanel objects made by
\* openSettings, each with its isOpen flag, its panel element (0 is null),
\* the open() calls awaiting createPanel and the pending close timers;
\* attached: the panel elements that are children of the video player.
NoPanel ==
    [settingsPanel |-> 0,
     instances |-> [k \in 1..MaxPanels |->
                      [made |-> FALSE, isOpen |-> FALSE, panel |-> 0,
                       opening |-> 0, closing |-> 0]],
     attached |-> {}, created |-> 0]

\* The parts of the page other than the chat components are idle.
IdlePage ==
    /\ reaction = NoReaction
    /\ observed = FALSE
    /\ evicting = "idle"
    /\ escaping = NoInsertion
    /\ page = NoPage
    /\ settings = NoSettings
    /\ boot = NoBoot
    /\ panel = NoPanel

Init ==
    /\ InitController
    /\ renderer = Constructor(0)
    /\ rlast = NewLog
    /\ NoParse
    /\ IdlePage

\* ChatManager.on(event, callback)
OnBody(m, event, callback) ==
    IF event \in DOMAIN m.listeners
    THEN [m EXCEPT !.listeners[event] = Append(@, callback)]
    ELSE m

\* ChatManager.off(event, callback)
OffBody(m, event, callback) ==
    IF event \in DOMAIN m.listeners
    THEN [m EXCEPT !.listeners[event] = SelectSeq(@, LAMBDA cb : cb # callback)]
    ELSE m

\* Faulty variant of ConnectEntry: the held handle is not torn down first.
ConnectEntryNoTeardown(m, v) == SetState([m EXCEPT !.videoId = v], CONNECTING)

\* connect(), lines 44-49: tear down a held handle, record the stream,
\* enter CONNECTING.
ConnectEntry(m, v) ==
    LET m1 == IF m.livechat # 0 THEN DisconnectBody(m) ELSE m
    IN  SetState([m1 EXCEPT !.videoId = v], CONNECTING)

\* connect(), the catch block
ConnectCatch(m, error) == Emit(SetState(m, ERROR), "error", error)

\* Faulty variant of SetupLiveChatListeners: the handlers are registered twice.
SetupLiveChatListenersTwice(m) == [m EXCEPT !.handles[m.livechat].attached = @ + 2]

\* ChatManager._setupLiveChatListeners: one more set of handlers on the
\* held handle.
SetupLiveChatListeners(m) == [m EXCEPT !.handles[m.livechat].attached = @ + 1]

\* Faulty variant of ConnectFinish: the feed is never started.
ConnectFinishNoStart(m, c) ==
    LET m1 == [m EXCEPT !.livechat = c, !.handles[c].created = TRUE]
    IN  SetState(SetupLiveChatListeners(m1), CONNECTED)

\* connect(), lines 79-87, once getInfo has resolved with a live chat:
\* call c's getLiveChat() yields handle c.
ConnectFinish(m, c) ==
    LET m1 == [m EXCEPT !.livechat = c, !.handles[c].created = TRUE]
        m2 == SetupLiveChatListeners(m1)
        m3 == Start(m2, m2.livechat)
    IN  SetState(m3, CONNECTED)

\* MessageParser.parseAction, its dispatch: the message type or Null.
parseAction(action) ==
    IF action.kind # "AddChatItemAction" THEN Null
    ELSE IF action.item = Null THEN Null
    ELSE CASE action.item = "LiveChatTextMessage" -> "text"
           [] action.item = "LiveChatPaidMessage" -> "paid"
           [] action.item = "LiveChatPaidSticker" -> "sticker"
           [] action.item = "LiveChatMembershipItem" -> "membership"
           [] action.item = "LiveChatSponsorshipsGiftPurchaseAnnouncement" -> "gift_purchase"
           [] action.item = "LiveChatSponsorshipsGiftRedemptionAnnouncement" -> "gift_redemption"
           [] OTHER -> Null

\* Faulty variant of HandleChatAction: a rejected action is published too.
HandleChatActionUnfiltered(m, action) == Emit(m, "message", parseAction(action))

\* ChatManager._handleChatAction
HandleChatAction(m, action) ==
    LET message == parseAction(action)
    IN  IF message # Null THEN Emit(m, "message", message) ELSE m

\* Faulty variant of IsTransientError: the NetworkError pattern is missing.
IsTransientErrorFetchOnly(errorMsg) == Includes(errorMsg, "Failed to fetch")

\* The error handler's two filters, lines 199 and 218-221.
IsTransientError(errorMsg) ==
    Includes(errorMsg, "Failed to fetch") \/ Includes(errorMsg, "NetworkError")

IsSendRelatedError(errorMsg) ==
    \/ Includes(errorMsg, "DimChatItemAction")
    \/ Includes(errorMsg, "sendMessage")
    \/ Includes(errorMsg, "not allowed")
    \/ Includes(errorMsg, "permission")

\* Faulty variant of ScheduleRetry: the retry is scheduled twice.
ScheduleRetryTwice(m, h) ==
    [m EXCEPT !.timers = @ \o << [by |-> h, session |-> m.livechat],
                                 [by |-> h, session |-> m.livechat] >>,
              !.trace = @ \o << [call |-> "setTimeout", h |-> h, delay |-> RetryDelayMs],
                                [call |-> "setTimeout", h |-> h, delay |-> RetryDelayMs] >>]

\* setTimeout(..., 2000) in the error handler of handle h.
ScheduleRetry(m, h) ==
    [m EXCEPT !.timers = Append(@, [by |-> h, session |-> m.livechat]),
              !.trace = Append(@, [call |-> "setTimeout", h |-> h, delay |-> RetryDelayMs])]

\* The guard of the retry callback, line 205.
RetryGuard(m) == m.connectionState # DISCONNECTED

\* The retry callback, lines 204-212: this.livechat.start() on whatever
\* handle the controller holds now; with no handle the TypeError is caught.
RetryBody(m) ==
    IF RetryGuard(m)
    THEN IF m.livechat # 0 THEN Start(m, m.livechat) ELSE m
    ELSE m

\* The 'error' handler, lines 193-228.
HandleError(m, h, errorMsg) ==
    IF IsTransientError(errorMsg) THEN ScheduleRetry(m, h)
    ELSE IF IsSendRelatedError(errorMsg) THEN m
    ELSE Emit(SetState(m, ERROR), "error", errorMsg)

\* One handler set of handle h reacting to a transport event.
Handler(m, h, ev) ==
    CASE ev.name = "start" -> m
      [] ev.name = "chat-update" -> HandleChatAction(m, ev.data)
      [] ev.name = "metadata-update" -> Emit(m, "metadata", ev.data)
      [] ev.name = "error" -> HandleError(m, h, ev.data)
      [] ev.name = "end" -> SetState(m, ENDED)

\* The transport's emit: every handler set attached to h runs in turn.
RECURSIVE Deliver(_, _, _, _)
Deliver(m, h, ev, n) ==
    IF n = 0 THEN m ELSE Deliver(Handler(m, h, ev), h, ev, n - 1)

RECURSIVE SumLen(_, _)
SumLen(ls, chs) ==
    IF chs = {} THEN 0
    ELSE LET ch == CHOOSE x \in chs : TRUE
         IN  Len(ls[ch]) + SumLen(ls, chs \ {ch})

Registrations == SumLen(listeners, Channels)

Awaiting(c) == calls[c].pc \in {"awaitCreate", "awaitInfo"}

\* ------------------------------------------------------------- actions
\* The record of a segment: what ran, on which call or handle, with which
\* input, and the state, held handle and pending timers it started from.
Segment(op, id, arg) ==
    [op |-> op, id |-> id, arg |-> arg,
     state |-> connectionState, held |-> livechat, pending |-> Len(timers)]

\* ChatManager.on(event, callback)
On(event, callback) ==
    /\ Registrations < MaxRegs
    /\ Commit(OnBody(This, event, callback))
    /\ last' = Segment("on", 0, "")
    /\ UNCHANGED <<calls, overlapped, others>>

\* ChatManager.off(event, callback)
Off(event, callback) ==
    /\ Commit(OffBody(This, event, callback))
    /\ last' = Segment("off", 0, "")
    /\ UNCHANGED <<calls, overlapped, others>>

\* connect(videoId) up to its first await: Innertube.create when there is
\* no client yet, getInfo otherwise.  Calls are numbered in the order they
\* are issued; the streams are interchangeable, so the first call's is "vA".
Connect(c, v) ==
    /\ calls[c].pc = "idle"
    /\ \A d \in Calls : d < c => calls[d].pc # "idle"
    /\ c = 1 => v = "vA"
    /\ Commit(ConnectEntry(This, v))
    /\ calls' = [calls EXCEPT ![c] =
                    [pc |-> IF innertube = Null THEN "awaitCreate" ELSE "awaitInfo",
                     videoId |-> v,
                     states |-> ConnectEntry(This, v).published]]
    /\ overlapped' = (overlapped \/ \E d \in Calls : Awaiting(d))
    /\ last' = Segment("connect", c, v)
    /\ UNCHANGED others

\* Innertube.create resolved: the client is stored and getInfo is called.
CreateResolved(c) ==
    /\ calls[c].pc = "awaitCreate"
    /\ Commit([This EXCEPT !.innertube = "client"])
    /\ calls' = [calls EXCEPT ![c].pc = "awaitInfo"]
    /\ last' = Segment("createResolved", c, "")
    /\ UNCHANGED <<overlapped, others>>

\* Innertube.create or getInfo rejected: the catch block.
LookupRejected(c) ==
    /\ Awaiting(c)
    /\ Commit(ConnectCatch(This, "Request failed"))
    /\ calls' = [calls EXCEPT ![c].pc = "done",
                             ![c].states = @ \o ConnectCatch(This, "Request failed").published]
    /\ last' = Segment("lookupRejected", c, "")
    /\ UNCHANGED <<overlapped, others>>

\* getInfo resolved with an info that has no live chat: throw, then catch.
InfoWithoutChat(c) ==
    /\ calls[c].pc = "awaitInfo"
    /\ Commit(ConnectCatch(This, NoLiveChatText))
    /\ calls' = [calls EXCEPT ![c].pc = "done",
                             ![c].states = @ \o ConnectCatch(This, NoLiveChatText).published]
    /\ last' = Segment("infoWithoutChat", c, "")
    /\ UNCHANGED <<overlapped, others>>

\* getInfo resolved with a live chat.
InfoResolved(c) ==
    /\ calls[c].pc = "awaitInfo"
    /\ Commit(ConnectFinish(This, c))
    /\ calls' = [calls EXCEPT ![c].pc = "done",
                             ![c].states = @ \o ConnectFinish(This, c).published]
    /\ last' = Segment("infoResolved", c, "")
    /\ UNCHANGED <<overlapped, others>>

\* ChatManager.disconnect()
Disconnect ==
    /\ Commit(DisconnectBody(This))
    /\ last' = Segment("disconnect", 0, "")
    /\ UNCHANGED <<calls, overlapped, others>>

\* Handle h emits the transport event ev to its handler sets.
TransportEvent(h, ev) ==
    /\ handles[h].attached > 0
    /\ Commit(Deliver(This, h, ev, handles[h].attached))
    /\ UNCHANGED <<calls, overlapped, others>>

\* 'start': the initial chat data
StartEvent(h) ==
    /\ TransportEvent(h, [name |-> "start", data |-> "initialData"])
    /\ last' = Segment("start", h, "")

\* 'chat-update': one chat action
ChatUpdate(h, action) ==
    /\ TransportEvent(h, [name |-> "chat-update", data |-> action])
    /\ last' = Segment("chat-update", h, ActionName(action))

\* 'metadata-update'
MetadataUpdate(h) ==
    /\ TransportEvent(h, [name |-> "metadata-update", data |-> "metadata"])
    /\ last' = Segment("metadata-update", h, "")

\* 'error': an error with the given message text
ErrorEvent(h, errorMsg) ==
    /\ IsTransientError(errorMsg) => Len(timers) < MaxTimers
    /\ TransportEvent(h, [name |-> "error", data |-> errorMsg])
    /\ last' = Segment("error", h, errorMsg)

\* 'end': the stream ended
EndEvent(h) ==
    /\ TransportEvent(h, [name |-> "end", data |-> ""])
    /\ last' = Segment("end", h, "")

\* The oldest pending retry timer fires (equal delays fire in the order set).
RetryTimer ==
    /\ timers # <<>>
    /\ Commit(RetryBody([This EXCEPT !.timers = Tail(@)]))
    /\ last' = Segment("timer", Head(timers).session, "")
    /\ UNCHANGED <<calls, overlapped, others>>

Next ==
    \/ \E event \in Channels, callback \in Callbacks : On(event, callback)
    \/ \E event \in Channels, callback \in Callbacks : Off(event, callback)
    \/ \E c \in Calls, v \in Videos : Connect(c, v)
    \/ \E c \in Calls : CreateResolved(c)
    \/ \E c \in Calls : LookupRejected(c)
    \/ \E c \in Calls : InfoWithoutChat(c)
    \/ \E c \in Calls : InfoResolved(c)
    \/ Disconnect
    \/ \E h \in Handles : StartEvent(h)
    \/ \E h \in Handles, action \in ChatActions : ChatUpdate(h, action)
    \/ \E h \in Handles : MetadataUpdate(h)
    \/ \E h \in Handles, errorMsg \in ErrorTexts : ErrorEvent(h, errorMsg)
    \/ \E h \in Handles : EndEvent(h)
    \/ RetryTimer

Spec == Init /\ [][Next]_vars

\* --------------------------------------------------------- sendMessage
\* String.prototype.trim on the characters of a text.
RECURSIVE TrimStart(_)
TrimStart(cs) ==
    IF cs # <<>> /\ Head(cs) \in Whitespace THEN TrimStart(Tail(cs)) ELSE cs

RECURSIVE TrimEnd(_)
TrimEnd(cs) ==
    IF cs # <<>> /\ cs[Len(cs)] \in Whitespace
    THEN TrimEnd(SubSeq(cs, 1, Len(cs) - 1))
    ELSE cs

Trim(cs) == TrimEnd(TrimStart(cs))

\* Faulty variant of SendGuard: the connection is tested before the text.
SendGuardConnectionFirst(m, text) ==
    IF m.livechat = 0 \/ m.connectionState # CONNECTED THEN "not_connected"
    ELSE IF Chars[text] = <<>> \/ Trim(Chars[text]) = <<>> THEN "empty"
    ELSE "await"

\* sendMessage, lines 116-123: the code it returns at once, or "await"
\* when it goes on to the transport.
SendGuard(m, text) ==
    IF Chars[text] = <<>> \/ Trim(Chars[text]) = <<>> THEN "empty"
    ELSE IF m.livechat = 0 \/ m.connectionState # CONNECTED THEN "not_connected"
    ELSE "await"

\* this.livechat.sendMessage(text.trim()), line 127
SendCall(m, text) ==
    [m EXCEPT !.trace = Append(@, [call |-> "sendMessage", h |-> m.livechat, delay |-> 0])]

\* Faulty variant of SendClassify: the subscriber phrase is not tested.
SendClassifyNoSubscriber(errorMsg) ==
    IF \/ Includes(errorMsg, "not allowed")
       \/ Includes(errorMsg, "permission")
       \/ Includes(errorMsg, "DimChatItemAction")
    THEN "not_allowed"
    ELSE "send_failed"

\* The catch block of sendMessage, lines 134-139: the code for a failure
\* of the transport's send with the given message text.
SendClassify(errorMsg) ==
    IF \/ Includes(errorMsg, "not allowed")
       \/ Includes(errorMsg, "permission")
       \/ Includes(errorMsg, "subscriber")
       \/ Includes(errorMsg, "DimChatItemAction")
    THEN "not_allowed"
    ELSE "send_failed"

\* Faulty variant of SendCatch: the failure is reported like a connection
\* failure.
SendCatchReports(m, errorMsg) == ConnectCatch(m, errorMsg)

\* The catch block of sendMessage, lines 130-140, as it acts on the
\* controller: it logs and returns a code, nothing else.
SendCatch(m, errorMsg) == m

\* sendMessage(text) up to its return or its await.  Invocations are
\* numbered in the order they are issued.
SendMessage(s, text) ==
    /\ sends[s].pc = "idle"
    /\ \A r \in Sends : r < s => sends[r].pc # "idle"
    /\ LET code == SendGuard(This, text)
       IN  IF code = "await"
           THEN /\ Commit(SendCall(This, text))
                /\ sends' = [sends EXCEPT ![s] =
                                [pc |-> "await", result |-> "", stream |-> videoId]]
           ELSE /\ Commit(This)
                /\ sends' = [sends EXCEPT ![s] =
                                [pc |-> "done", result |-> code, stream |-> videoId]]
    /\ last' = Segment("sendMessage", s, text)
    /\ UNCHANGED <<calls, overlapped, emitVars, renderVars, parseVars, pageVars>>

\* The transport's send resolved.
SendResolved(s) ==
    /\ sends[s].pc = "await"
    /\ Commit(This)
    /\ sends' = [sends EXCEPT ![s] =
                    [pc |-> "done", result |-> "success", stream |-> videoId]]
    /\ last' = Segment("sendResolved", s, "")
    /\ UNCHANGED <<calls, overlapped, emitVars, renderVars, parseVars, pageVars>>

\* The transport's send rejected with an error of the given message text.
SendRejected(s, errorMsg) ==
    /\ sends[s].pc = "await"
    /\ Commit(SendCatch(This, errorMsg))
    /\ sends' = [sends EXCEPT ![s] =
                    [pc |-> "done", result |-> SendClassify(errorMsg), stream |-> videoId]]
    /\ last' = Segment("sendRejected", s, errorMsg)
    /\ UNCHANGED <<calls, overlapped, emitVars, renderVars, parseVars, pageVars>>

\* sendMessage reads the held handle and the connection state: the
\* specification of sending runs it against the lifecycle operations that
\* change either, with subscribers on the `state` and `error` channels.
NextSend ==
    \/ \E event \in {"state", "error"}, callback \in Callbacks : On(event, callback)
    \/ \E c \in Calls, v \in Videos : Connect(c, v)
    \/ \E c \in Calls : CreateResolved(c)
    \/ \E c \in Calls : LookupRejected(c)
    \/ \E c \in Calls : InfoResolved(c)
    \/ Disconnect
    \/ \E h \in Handles : ErrorEvent(h, "Unexpected response")
    \/ \E h \in Handles : EndEvent(h)
    \/ \E s \in Sends, text \in Texts : SendMessage(s, text)
    \/ \E s \in Sends : SendResolved(s)
    \/ \E s \in Sends, errorMsg \in ErrorTexts : SendRejected(s, errorMsg)

SpecSend == Init /\ [][NextSend]_vars

\* ---------------------------------------------- _emit and its callbacks
\* The callbacks and channels of the emission specification, and what a
\* callback may do when it is invoked: call on() or off() once, or
\* neither, and then return or throw.
EmitCallbacks == {"cb1", "cb2"}
EmitChannels == {"message", "state"}
Behaviours ==
    {b \in [call : {"none", "on", "off"}, event : EmitChannels,
            callback : EmitCallbacks, throws : BOOLEAN] :
        b.call = "none" => (b.event = "message" /\ b.callback = "cb1")}

\* this.listeners[event].forEach(...), line 265: forEach reads the length
\* of the array once and then visits the indices below it.
ForEachBegin(ls, event) ==
    [active |-> TRUE, event |-> event, array |-> ls[event], aliased |-> TRUE,
     len |-> Len(ls[event]), k |-> 0,
     snapshot |-> ls[event], invoked |-> <<>>, caught |-> 0]

\* on() called by a callback: push() grows the array in place, so the
\* array forEach walks grows too while it is still the registered one.
CallbackOn(w, event, callback) ==
    [listeners |-> OnBody(w, event, callback).listeners,
     emission |->
        IF w.emission.aliased /\ event = w.emission.event
        THEN [w.emission EXCEPT !.array = Append(@, callback)]
        ELSE w.emission]

\* Faulty variant of CallbackOff: the callback is removed from the
\* registered array in place.
CallbackOffInPlace(w, event, callback) ==
    [listeners |-> OffBody(w, event, callback).listeners,
     emission |->
        IF w.emission.aliased /\ event = w.emission.event
        THEN [w.emission EXCEPT !.array = SelectSeq(@, LAMBDA cb : cb # callback)]
        ELSE w.emission]

\* off() called by a callback: filter() builds a new array and the old
\* one, which forEach keeps walking, is no longer the registered one.
CallbackOff(w, event, callback) ==
    [listeners |-> OffBody(w, event, callback).listeners,
     emission |->
        IF event = w.emission.event
        THEN [w.emission EXCEPT !.aliased = FALSE]
        ELSE w.emission]

\* The try/catch around callback(data), lines 266-270: a throw is logged.
CatchCallback(e, throws) ==
    IF throws THEN [e EXCEPT !.caught = @ + 1] ELSE e

\* on() and off() called from outside any emission.
Subscribe(event, callback) == ~emission.active /\ On(event, callback)

Unsubscribe(event, callback) == ~emission.active /\ Off(event, callback)

\* _emit(event, data) is called: forEach starts.
EmitBegin(event) ==
    /\ ~emission.active
    /\ emission' = ForEachBegin(listeners, event)
    /\ UNCHANGED <<listeners, sessionVars, sendVars, renderVars, parseVars, pageVars>>

\* One step of forEach: the callback at index k, if the array has one,
\* is invoked and does what `does` says.
EmitInvoke(does) ==
    /\ emission.active
    /\ emission.k < emission.len
    /\ does.call = "on" => Registrations < MaxRegs
    /\ LET present == emission.k < Len(emission.array)
           w0 == [listeners |-> listeners,
                  emission |-> [emission EXCEPT
                      !.k = @ + 1,
                      !.invoked = IF present
                                  THEN Append(@, emission.array[emission.k + 1])
                                  ELSE @]]
           w1 == CASE ~present -> w0
                   [] does.call = "on" -> CallbackOn(w0, does.event, does.callback)
                   [] does.call = "off" -> CallbackOff(w0, does.event, does.callback)
                   [] OTHER -> w0
       IN  /\ listeners' = w1.listeners
           /\ emission' = IF present
                           THEN CatchCallback(w1.emission, does.throws)
                           ELSE w1.emission
    /\ UNCHANGED <<sessionVars, sendVars, renderVars, parseVars, pageVars>>

\* forEach has visited every index below the length it read: _emit returns.
EmitEnd ==
    /\ emission.active
    /\ emission.k >= emission.len
    /\ emission' = [emission EXCEPT !.active = FALSE]
    /\ UNCHANGED <<listeners, sessionVars, sendVars, renderVars, parseVars, pageVars>>

NextEmit ==
    \/ \E event \in EmitChannels, callback \in EmitCallbacks : Subscribe(event, callback)
    \/ \E event \in EmitChannels, callback \in EmitCallbacks : Unsubscribe(event, callback)
    \/ \E event \in EmitChannels : EmitBegin(event)
    \/ \E does \in Behaviours : EmitInvoke(does)
    \/ EmitEnd

SpecEmit == Init /\ [][NextEmit]_vars

\* ------------------------------------------------------ MessageRenderer
\* Ids of the messages given to addMessage (two messages may share one),
\* constructor options and status banners.
MessageIds == {"a", "b"}
Options == 0..MaxLimit
Statuses ==
    {[text |-> "Connecting to chat...", type |-> "info"],
     [text |-> "Failed to connect", type |-> "error"]}

Min(a, b) == IF a <= b THEN a ELSE b
Max(a, b) == IF a >= b THEN a ELSE b

\* The container's geometry: every child is one row high, and scrollTop
\* never exceeds scrollHeight - clientHeight.
ScrollHeight(r) == Max(ViewHeight, Len(r.container) * RowHeight)

ClampTop(r, top) == Min(Max(0, top), ScrollHeight(r) - ViewHeight)

\* MessageRenderer._scrollToBottom
ScrollToBottom(r) == [r EXCEPT !.scrollTop = ClampTop(r, ScrollHeight(r))]

\* Faulty variant of RemoveNode: the node stays on the surface.
RemoveNodeKeeps(r, element) == r

\* element.remove(): the node leaves the container, whose content shrinks.
RemoveNode(r, element) ==
    LET r1 == [r EXCEPT !.container = SelectSeq(@, LAMBDA n : n.element # element)]
    IN  [r1 EXCEPT !.scrollTop = ClampTop(r1, @)]

Attached(r, element) == \E i \in 1..Len(r.container) : r.container[i].element = element

\* Faulty variant of EnforceMaxMessages: the newest record is dropped.
RECURSIVE EnforceMaxMessagesNewest(_)
EnforceMaxMessagesNewest(r) ==
    IF Len(r.messages) > r.maxMessages
    THEN LET newest == r.messages[Len(r.messages)]
             r1 == [r EXCEPT !.messages = SubSeq(@, 1, Len(@) - 1)]
         IN  EnforceMaxMessagesNewest(
                IF Attached(r1, newest.element) THEN RemoveNode(r1, newest.element) ELSE r1)
    ELSE r

\* MessageRenderer._enforceMaxMessages
RECURSIVE EnforceMaxMessages(_)
EnforceMaxMessages(r) ==
    IF Len(r.messages) > r.maxMessages
    THEN LET oldest == Head(r.messages)
             r1 == [r EXCEPT !.messages = Tail(@)]
         IN  EnforceMaxMessages(
                IF Attached(r1, oldest.element) THEN RemoveNode(r1, oldest.element) ELSE r1)
    ELSE r

\* MessageRenderer.addMessage; on a destroyed renderer appendChild on the
\* null container throws before anything is changed.
AddMessageBody(r, message) ==
    IF r.destroyed THEN r
    ELSE LET el == r.created + 1
             r1 == [r EXCEPT
                      !.created = el,
                      !.container = Append(@, [kind |-> "message", element |-> el,
                                               id |-> message, text |-> ""]),
                      !.messages = Append(@, [id |-> message, element |-> el])]
             r2 == EnforceMaxMessages(r1)
         IN  IF r2.autoScroll THEN ScrollToBottom(r2) ELSE r2

\* Faulty variant of SetMaxMessagesBody: the bound is not enforced.
SetMaxMessagesLazy(r, max) == [r EXCEPT !.maxMessages = max]

\* MessageRenderer.setMaxMessages
SetMaxMessagesBody(r, max) == EnforceMaxMessages([r EXCEPT !.maxMessages = max])

\* Faulty variant of ClearBody: only the message nodes are removed.
ClearBodyKeepsStatus(r) ==
    IF r.destroyed THEN r
    ELSE [r EXCEPT !.container = SelectSeq(@, LAMBDA n : n.kind = "status"),
                   !.messages = <<>>, !.scrollTop = 0]

\* MessageRenderer.clear; on a destroyed renderer the assignment to
\* innerHTML of the null container throws first.
ClearBody(r) ==
    IF r.destroyed THEN r
    ELSE [r EXCEPT !.container = <<>>, !.messages = <<>>, !.scrollTop = 0]

\* container.querySelector('.chatover-status')?.remove()
RemoveStatus(r) ==
    LET found == {i \in 1..Len(r.container) : r.container[i].kind = "status"}
    IN  IF found = {} THEN r
        ELSE LET first == CHOOSE i \in found : \A j \in found : i <= j
             IN  RemoveNode(r, r.container[first].element)

\* Faulty variant of ShowStatusBody: an existing banner is left in place.
ShowStatusBodyKeepsOld(r, text, type) ==
    IF r.destroyed THEN r
    ELSE [r EXCEPT
            !.created = @ + 1,
            !.container = Append(@, [kind |-> "status", element |-> r.created + 1,
                                     id |-> type, text |-> text])]

\* MessageRenderer.showStatus
ShowStatusBody(r, text, type) ==
    IF r.destroyed THEN r
    ELSE LET r1 == RemoveStatus(r)
             el == r1.created + 1
         IN  [r1 EXCEPT
                !.created = el,
                !.container = Append(@, [kind |-> "status", element |-> el,
                                         id |-> type, text |-> text])]

\* MessageRenderer.clearStatus
ClearStatusBody(r) == IF r.destroyed THEN r ELSE RemoveStatus(r)

\* Faulty variant of ScrollHandler: the threshold itself counts as near.
ScrollHandlerInclusive(r) ==
    [r EXCEPT !.autoScroll =
        ScrollHeight(r) - r.scrollTop - ViewHeight <= NearBottomPx]

\* The scroll handler, lines 272-276.
ScrollHandler(r) ==
    [r EXCEPT !.autoScroll =
        ScrollHeight(r) - r.scrollTop - ViewHeight < NearBottomPx]

\* MessageRenderer.destroy; a second destroy() throws in clear().
DestroyBody(r) ==
    IF r.destroyed THEN r
    ELSE [ClearBody(r) EXCEPT !.scrollHandler = FALSE, !.destroyed = TRUE]

\* The positions the container can be scrolled to.
\* The positions the container can be scrolled to: the row boundaries,
\* the end, and the position exactly the threshold away from the end.
ScrollPositions(r) ==
    {i * RowHeight : i \in 0..((ScrollHeight(r) - ViewHeight) \div RowHeight)}
        \cup {ScrollHeight(r) - ViewHeight}
        \cup {t \in {ScrollHeight(r) - ViewHeight - NearBottomPx} : t >= 0}

\* How far from the end of its content the container is scrolled.
FromEnd(r) == ScrollHeight(r) - r.scrollTop - ViewHeight

\* The calls that throw a TypeError on a destroyed renderer, whose
\* container is null: all but setMaxMessages.
Throws(op, r) ==
    r.destroyed /\ op \in {"addMessage", "clear", "showStatus", "clearStatus", "destroy"}

\* The record of an operation: its name and arguments, whether it threw,
\* what it started from (log, scroll position, bound, auto-scroll flag),
\* and the running history.
Log(op, n, arg, arrivals, fresh) ==
    [op |-> op, n |-> n, arg |-> arg, threw |-> Throws(op, renderer),
     before |-> renderer.messages, top |-> renderer.scrollTop,
     max |-> renderer.maxMessages, auto |-> renderer.autoScroll,
     arrivals |-> arrivals, fresh |-> fresh, seen |-> rlast.seen]

Controller == <<listeners, sessionVars, sendVars, emitVars, parseVars, pageVars>>

AddMessage(message) ==
    /\ renderer.created < MaxNodes
    /\ renderer' = AddMessageBody(renderer, message)
    /\ rlast' = Log("addMessage", 0, <<>>,
                    IF renderer.destroyed THEN rlast.arrivals
                    ELSE Append(rlast.arrivals,
                                [id |-> message, element |-> renderer.created + 1]),
                    rlast.fresh)
    /\ UNCHANGED Controller

SetMaxMessages(max) ==
    /\ renderer' = SetMaxMessagesBody(renderer, max)
    /\ rlast' = Log("setMaxMessages", max, <<>>, rlast.arrivals, FALSE)
    /\ UNCHANGED Controller

Clear ==
    /\ renderer' = ClearBody(renderer)
    /\ rlast' = Log("clear", 0, <<>>, IF renderer.destroyed THEN rlast.arrivals ELSE <<>>, FALSE)
    /\ UNCHANGED Controller

ShowStatus(text, type) ==
    /\ renderer.created < MaxNodes
    /\ renderer' = ShowStatusBody(renderer, text, type)
    /\ rlast' = Log("showStatus", 0, <<text, type>>, rlast.arrivals, rlast.fresh)
    /\ UNCHANGED Controller

ClearStatus ==
    /\ renderer' = ClearStatusBody(renderer)
    /\ rlast' = Log("clearStatus", 0, <<>>, rlast.arrivals, rlast.fresh)
    /\ UNCHANGED Controller

\* The container is scrolled to a position and its 'scroll' event runs
\* the handler while it is registered.
Scroll(top) ==
    /\ renderer' = IF renderer.scrollHandler
                   THEN ScrollHandler([renderer EXCEPT !.scrollTop = top])
                   ELSE [renderer EXCEPT !.scrollTop = top]
    /\ rlast' = [Log("scroll", 0, <<>>, rlast.arrivals, rlast.fresh) EXCEPT
                    !.seen = IF renderer.scrollHandler
                             THEN FromEnd([renderer EXCEPT !.scrollTop = top])
                             ELSE @]
    /\ UNCHANGED Controller

Destroy ==
    /\ renderer' = DestroyBody(renderer)
    /\ rlast' = Log("destroy", 0, <<>>, IF renderer.destroyed THEN rlast.arrivals ELSE <<>>, FALSE)
    /\ UNCHANGED Controller

InitRender ==
    /\ InitController
    /\ \E option \in Options : renderer = Constructor(option)
    /\ rlast = NewLog
    /\ NoParse
    /\ IdlePage

NextRender ==
    \/ \E message \in MessageIds : AddMessage(message)
    \/ \E max \in 0..MaxLimit : SetMaxMessages(max)
    \/ Clear
    \/ \E status \in Statuses : ShowStatus(status.text, status.type)
    \/ ClearStatus
    \/ \E top \in ScrollPositions(renderer) : Scroll(top)
    \/ Destroy

SpecRender == InitRender /\ [][NextRender]_vars

\* -------------------------------------------------------- message parser
\* JavaScript values of a raw event, each with its typeof tag.  A property
\* that is absent reads as undefined.
Undefined == [t |-> "undefined"]
JsNull == [t |-> "null"]
Str(s) == [t |-> "string", s |-> s]
Bool(b) == [t |-> "boolean", b |-> b]
Arr(items) == [t |-> "array", items |-> items]

\* A number c, held as c = q * 2^24 + low with 0 <= low < 2^24, so that
\* every signed and unsigned 32-bit value fits the checker's integers.
Num(q, low) == [t |-> "number", q |-> q, low |-> low]

\* ToBoolean
Truthy(v) ==
    CASE v.t \in {"undefined", "null"} -> FALSE
      [] v.t = "string" -> v.s # ""
      [] v.t = "boolean" -> v.b
      [] v.t = "number" -> ~(v.q = 0 /\ v.low = 0)
      [] OTHER -> TRUE

\* a || b
Or(a, b) == IF Truthy(a) THEN a ELSE b

\* The texts of tooltips and button titles, each with the substrings the
\* parser tests ("Member", "member", "Verified", "verified", "@") that it
\* contains.
Substrings ==
    [t \in {"Member (6 months)", "New member", "Verified", "Moderator",
            "@alice", "Reply to @bob", "Reply", ""} |->
        CASE t = "Member (6 months)" -> {"Member"}
          [] t = "New member" -> {"member"}
          [] t = "Verified" -> {"Verified"}
          [] t = "@alice" -> {"@"}
          [] t = "Reply to @bob" -> {"@"}
          [] OTHER -> {}]

\* String.prototype.includes on the texts above.
TextIncludes(text, pattern) == pattern \in Substrings[text]

\* String.prototype.startsWith on the texts above.
StartsWith(text, pattern) == pattern = "@" /\ text = "@alice"

\* Number.prototype.toString(16) of a number below 2^31.
HexDigits ==
    <<"0", "1", "2", "3", "4", "5", "6", "7",
      "8", "9", "a", "b", "c", "d", "e", "f">>

RECURSIVE ToString16(_)
ToString16(n) ==
    IF n < 16 THEN HexDigits[n + 1]
    ELSE ToString16(n \div 16) \o HexDigits[(n % 16) + 1]

\* String.prototype.padStart
RECURSIVE PadStart(_, _, _)
PadStart(s, len, fill) ==
    IF Len(s) >= len THEN s ELSE PadStart(fill \o s, len, fill)

\* c >>> 0: the number modulo 2^32, as its high 8 and low 24 bits.
ToUint32(c) == [hi |-> c.q % 256, low |-> c.low]

\* toString(16) of an unsigned 32-bit number: no leading zeros.
Uint32ToString16(u) ==
    IF u.hi = 0 THEN ToString16(u.low)
    ELSE ToString16(u.hi) \o PadStart(ToString16(u.low), 6, "0")

\* '#' + (c >>> 0).toString(16).padStart(6, '0'), the expression of
\* lines 119 and 456.
NumberToHexColor(c) == "#" \o PadStart(Uint32ToString16(ToUint32(c)), 6, "0")

\* MessageParser._getSuperChatColor
GetSuperChatColor(colorCode) ==
    IF colorCode.t = "number" THEN NumberToHexColor(colorCode) ELSE "#1565C0"

\* MessageParser._generateId: 'msg_' + Date.now() + '_' + the digits of
\* Math.random() in base 36 after "0.", nine at most and none for 0.
GenerateId(now, random) == "msg_" \o ToString(now) \o "_" \o random

\* v?.url: the url of a thumbnail object, undefined for anything else.
OptUrl(v) == IF v.t = "object" THEN v.url ELSE Undefined

\* The outcome of the for...of loop of _isMember and _isVerified from
\* entry i on: "true" at the first tooltip that matches, "false" when none
\* does, "throw" at an entry that is null (badge.tooltip of null) or whose
\* tooltip is truthy and not a string (tooltip.includes is not a function).
RECURSIVE TooltipScan(_, _, _, _)
TooltipScan(badges, i, patterns, exact) ==
    IF i > Len(badges) THEN "false"
    ELSE IF badges[i].t \in {"null", "undefined"} THEN "throw"
    ELSE LET tooltip == Or(badges[i].tooltip, Str(""))
         IN  IF tooltip.t # "string" THEN "throw"
             ELSE IF \/ \E p \in patterns : TextIncludes(tooltip.s, p)
                     \/ tooltip.s \in exact
                  THEN "true"
                  ELSE TooltipScan(badges, i + 1, patterns, exact)

\* for (const badge of author.badges) over something that is not
\* iterable throws.
BadgeScan(author, patterns, exact) ==
    IF ~Truthy(author.badges) THEN "false"
    ELSE IF author.badges.t # "array" THEN "throw"
    ELSE TooltipScan(author.badges.items, 1, patterns, exact)

\* MessageParser._isMember: "true", "false" or "throw".
IsMember(author) ==
    IF Truthy(author.is_member) THEN "true"
    ELSE BadgeScan(author, {"Member", "member"}, {})

\* MessageParser._isVerified: "true", "false" or "throw".
IsVerified(author) ==
    IF Truthy(author.is_verified) THEN "true"
    ELSE BadgeScan(author, {"Verified", "verified"}, {"check mark"})

\* MessageParser._parseAuthor, when it does not throw: the properties of
\* the object it returns.  The thumbnails of an author are an array when
\* they are there at all.
ParseAuthor(author) ==
    IF ~Truthy(author)
    THEN [name |-> Str("Unknown"), channelId |-> Str(""), avatarUrl |-> Str(""),
          isModerator |-> Bool(FALSE), isMember |-> Bool(FALSE),
          isOwner |-> Bool(FALSE)]
    ELSE LET thumbnails == author.thumbnails
             avatarUrl ==
                 IF Truthy(thumbnails) /\ Len(thumbnails.items) > 0
                 THEN LET thumb == thumbnails.items[1]
                      IN  Or(Or(OptUrl(thumb), thumb), Str(""))
                 ELSE Str("")
         IN  [name |-> Or(author.name, Str("Unknown")),
              channelId |-> Or(author.id, Str("")),
              avatarUrl |-> avatarUrl,
              isModerator |-> Or(author.is_moderator, Bool(FALSE)),
              isMember |-> Bool(IsMember(author) = "true"),
              isOwner |-> Or(author.is_owner, Bool(FALSE)),
              isVerified |-> Bool(IsVerified(author) = "true")]

\* _parseAuthor throws when one of the two badge loops does.
ParseAuthorThrows(author) ==
    /\ Truthy(author)
    /\ \/ IsMember(author) = "throw"
       \/ IsVerified(author) = "throw"

\* The image URL of a badge: the first of the seven paths tried in lines
\* 364-370 that leads to one, "" when none does.
BadgeUrl(badge) ==
    LET found == {i \in 1..Len(badge.urls) : badge.urls[i] # ""}
    IN  IF found = {} THEN ""
        ELSE badge.urls[CHOOSE i \in found : \A j \in found : i <= j]

\* The loop of lines 361-379 from entry i on, when it does not throw.
RECURSIVE CustomBadges(_, _)
CustomBadges(badges, i) ==
    IF i > Len(badges) THEN <<>>
    ELSE IF BadgeUrl(badges[i]) # ""
         THEN <<[type |-> "custom", label |-> Or(badges[i].tooltip, Str("Badge")),
                 url |-> BadgeUrl(badges[i])]>>
              \o CustomBadges(badges, i + 1)
         ELSE CustomBadges(badges, i + 1)

\* The built-in badge pushed for a flag that is set.
BuiltIn(flag, type, label) ==
    IF Truthy(flag) THEN <<[type |-> type, label |-> Str(label), url |-> ""]>>
    ELSE <<>>

\* Faulty variant of ParseBadges: the custom badges come first.
ParseBadgesCustomFirst(author) ==
    IF ~Truthy(author) THEN <<>>
    ELSE (IF Truthy(author.badges) THEN CustomBadges(author.badges.items, 1) ELSE <<>>)
         \o BuiltIn(author.is_owner, "owner", "Owner")
         \o BuiltIn(author.is_moderator, "moderator", "Moderator")
         \o BuiltIn(author.is_verified, "verified", "Verified")

\* MessageParser._parseBadges, when it does not throw.
ParseBadges(author) ==
    IF ~Truthy(author) THEN <<>>
    ELSE BuiltIn(author.is_owner, "owner", "Owner")
         \o BuiltIn(author.is_moderator, "moderator", "Moderator")
         \o BuiltIn(author.is_verified, "verified", "Verified")
         \o (IF Truthy(author.badges) THEN CustomBadges(author.badges.items, 1)
             ELSE <<>>)

\* _parseBadges throws when author.badges is not iterable or holds an
\* entry that is null (badge.thumbnails of null).
ParseBadgesThrows(author) ==
    /\ Truthy(author)
    /\ Truthy(author.badges)
    /\ \/ author.badges.t # "array"
       \/ \E i \in 1..Len(author.badges.items) :
            author.badges.items[i].t \in {"null", "undefined"}

\* The first of the texts that is not empty: a || b || c || d on strings.
RECURSIVE FirstNonEmpty(_)
FirstNonEmpty(texts) ==
    IF Len(texts) = 1 \/ Head(texts) # "" THEN Head(texts)
    ELSE FirstNonEmpty(Tail(texts))

\* The loop of lines 401-437 from run i on, when it does not throw.  An
\* emoji carries the URL that one of the four paths of lines 408-416
\* leads to, "" when none does.
RECURSIVE ParseRuns(_, _)
ParseRuns(runs, i) ==
    IF i > Len(runs) THEN <<>>
    ELSE LET run == runs[i]
             emojiAlt ==
                 FirstNonEmpty(<<run.emoji.shortcut, run.emoji.emoji_id,
                                 run.text, ":emote:">>)
         IN  (IF Truthy(run.emoji)
              THEN <<[type |-> "emote", url |-> run.emoji.url, alt |-> emojiAlt,
                      text |-> FirstNonEmpty(<<run.text, emojiAlt>>)]>>
              ELSE <<[type |-> "text", url |-> "", alt |-> "", text |-> run.text]>>)
             \o ParseRuns(runs, i + 1)

\* MessageParser._parseMessageContent, when it does not throw; message.text
\* is what message.toString() returns.
ParseMessageContent(message) ==
    IF ~Truthy(message) THEN [text |-> "", runs |-> <<>>]
    ELSE LET text == IF message.text = "N/A" THEN "" ELSE message.text
         IN  [text |-> text,
              runs |-> IF Truthy(message.runs)
                       THEN ParseRuns(message.runs.items, 1)
                       ELSE <<[type |-> "text", url |-> "", alt |-> "", text |-> text]>>]

\* _parseMessageContent throws when message.runs is not iterable or holds
\* an entry that is null (run.emoji of null).
ParseMessageContentThrows(message) ==
    /\ Truthy(message)
    /\ Truthy(message.runs)
    /\ \/ message.runs.t # "array"
       \/ \E i \in 1..Len(message.runs.items) :
            message.runs.items[i].t \in {"null", "undefined"}

\* title && (title.startsWith('@') || title.includes('@')), lines 485
\* and 495, for a title that is a string or falsy.
LooksLikeReply(title) ==
    /\ Truthy(title)
    /\ StartsWith(title.s, "@") \/ TextIncludes(title.s, "@")

\* The loop of lines 481-501 from button i on: the reply target, null, or
\* a throw at a button that is null (button.title of null) or whose title
\* or tooltip is truthy and not a string (startsWith is not a function).
RECURSIVE ReplyScan(_, _)
ReplyScan(buttons, i) ==
    IF i > Len(buttons) THEN JsNull
    ELSE IF buttons[i].t \in {"null", "undefined"} THEN [t |-> "throw"]
    ELSE LET button == buttons[i]
             title == Or(Or(button.title, button.accessibility_text), Str(""))
             tooltip == Or(button.tooltip, Str(""))
             channelId == Or(button.browse_id, JsNull)
         IN  IF title.t # "string" THEN [t |-> "throw"]
             ELSE IF LooksLikeReply(title)
             THEN [t |-> "object", username |-> title, channelId |-> channelId]
             ELSE IF tooltip.t # "string" THEN [t |-> "throw"]
             ELSE IF LooksLikeReply(tooltip)
             THEN [t |-> "object", username |-> tooltip, channelId |-> channelId]
             ELSE ReplyScan(buttons, i + 1)

\* MessageParser._parseReplyTarget: the reply target, null, or a throw;
\* for...of over buttons that are not iterable throws.
ParseReplyTarget(item) ==
    LET buttons == item.before_content_buttons
    IN  IF ~Truthy(buttons) THEN JsNull
        ELSE IF buttons.t # "array" THEN [t |-> "throw"]
        ELSE IF Len(buttons.items) = 0 THEN JsNull
        ELSE ReplyScan(buttons.items, 1)

\* new Date(item.timestamp) when the item has one, else new Date().
Timestamp(item, now) == IF item.timestamp # 0 THEN item.timestamp ELSE now

\* Faulty variant of IdOf: no id is generated.
IdOfSource(item, now, random) == item.id

\* item.id || this._generateId()
IdOf(item, now, random) ==
    IF item.id # "" THEN item.id ELSE GenerateId(now, random)

\* MessageParser._parseTextMessage, when it does not throw.
ParseTextMessage(item, now, random) ==
    [id |-> IdOf(item, now, random),
     type |-> "text",
     author |-> ParseAuthor(item.author),
     badges |-> ParseBadges(item.author),
     message |-> ParseMessageContent(item.message),
     timestamp |-> Timestamp(item, now),
     replyTo |-> ParseReplyTarget(item)]

\* MessageParser._parsePaidMessage, when it does not throw.
ParsePaidMessage(item, now, random) ==
    [id |-> IdOf(item, now, random),
     type |-> "paid",
     author |-> ParseAuthor(item.author),
     badges |-> ParseBadges(item.author),
     message |-> ParseMessageContent(item.message),
     timestamp |-> Timestamp(item, now),
     paidInfo |-> [amount |-> item.purchase_amount,
                   color |-> GetSuperChatColor(item.header_background_color)]]

\* MessageParser._parseStickerMessage, when it does not throw; the sticker
\* carries the URLs its two paths lead to, "" for none.
ParseStickerMessage(item, now, random) ==
    LET stickerUrl == FirstNonEmpty(<<item.sticker.direct, item.sticker.nested, "">>)
        stickerAlt == FirstNonEmpty(<<item.sticker_accessibility_label, "Super Sticker">>)
        bgColor == IF item.background_color.t = "number"
                   THEN NumberToHexColor(item.background_color)
                   ELSE "#1565C0"
    IN  [id |-> IdOf(item, now, random),
         type |-> "sticker",
         author |-> ParseAuthor(item.author),
         badges |-> ParseBadges(item.author),
         message |-> [text |-> "",
                      runs |-> <<[type |-> "sticker", url |-> stickerUrl,
                                  alt |-> stickerAlt, text |-> ""]>>],
         timestamp |-> Timestamp(item, now),
         paidInfo |-> [amount |-> item.purchase_amount, color |-> bgColor]]

\* MessageParser._parseMembershipMessage, when it does not throw.
ParseMembershipMessage(item, now, random) ==
    [id |-> IdOf(item, now, random),
     type |-> "membership",
     author |-> ParseAuthor(item.author),
     badges |-> ParseBadges(item.author),
     message |-> ParseMessageContent(item.message),
     timestamp |-> now,
     membershipInfo |->
         [duration |-> FirstNonEmpty(<<item.header_primary_text, "New member">>),
          level |-> item.header_subtext]]

\* The author-like object of lines 196-205, null without a header.
AuthorData(item) ==
    IF ~Truthy(item.header) THEN JsNull
    ELSE [t |-> "object",
          name |-> item.header.author_name,
          thumbnails |-> Or(item.header.author_photo, Arr(<<>>)),
          badges |-> Or(item.header.author_badges, Arr(<<>>)),
          id |-> Or(item.author_external_channel_id, Str("")),
          is_owner |-> Bool(FALSE),
          is_moderator |-> Bool(FALSE),
          is_member |-> Bool(TRUE),
          is_verified |-> Bool(FALSE)]

\* The author the gift purchase is parsed with: authorData || item.author.
GiftAuthor(item) == Or(AuthorData(item), item.author)

\* MessageParser._parseGiftPurchaseMessage, when it does not throw.
ParseGiftPurchaseMessage(item, now, random) ==
    LET headerText ==
            FirstNonEmpty(<<IF Truthy(item.header) THEN item.header.primary_text ELSE "",
                            item.primary_text, "Gifted memberships!">>)
    IN  [id |-> IdOf(item, now, random),
         type |-> "gift_purchase",
         author |-> ParseAuthor(GiftAuthor(item)),
         badges |-> ParseBadges(GiftAuthor(item)),
         message |-> [text |-> headerText, runs |-> <<>>],
         timestamp |-> now,
         giftInfo |-> [isGift |-> TRUE, type |-> "purchase"]]

\* MessageParser._parseGiftRedemptionMessage, when it does not throw.
ParseGiftRedemptionMessage(item, now, random) ==
    LET messageText ==
            FirstNonEmpty(<<IF Truthy(item.message) THEN item.message.text ELSE "",
                            item.primary_text, "Received a gifted membership!">>)
    IN  [id |-> IdOf(item, now, random),
         type |-> "gift_redemption",
         author |-> ParseAuthor(item.author),
         badges |-> ParseBadges(item.author),
         message |-> [text |-> messageText, runs |-> <<>>],
         timestamp |-> now,
         giftInfo |-> [isGift |-> TRUE, type |-> "redemption"]]

\* The author object a parser of the item reads.
SourceAuthor(item) ==
    IF item.type = "LiveChatSponsorshipsGiftPurchaseAnnouncement"
    THEN GiftAuthor(item)
    ELSE item.author

\* The parser of the item throws a TypeError.
ItemThrows(item) ==
    \/ ParseAuthorThrows(SourceAuthor(item))
    \/ ParseBadgesThrows(SourceAuthor(item))
    \/ /\ item.type \in {"LiveChatTextMessage", "LiveChatPaidMessage",
                         "LiveChatMembershipItem"}
       /\ ParseMessageContentThrows(item.message)
    \/ /\ item.type = "LiveChatTextMessage"
       /\ ParseReplyTarget(item).t = "throw"

\* The six subtypes parseAction handles.
HandledTypes ==
    {"LiveChatTextMessage", "LiveChatPaidMessage", "LiveChatPaidSticker",
     "LiveChatMembershipItem", "LiveChatSponsorshipsGiftPurchaseAnnouncement",
     "LiveChatSponsorshipsGiftRedemptionAnnouncement"}

\* Faulty variant of IsHandled: the gift announcements are not handled.
IsHandledNoGifts(type) ==
    type \in {"LiveChatTextMessage", "LiveChatPaidMessage", "LiveChatPaidSticker",
              "LiveChatMembershipItem"}

\* The case labels of the switch of lines 41-63.
IsHandled(type) == type \in HandledTypes

\* MessageParser.parseAction on a raw event: null, a Message, or a
\* TypeError thrown by the parser of the item.
ParseAction(ev) ==
    LET item == ev.action.item
    IN  IF ev.action.kind # "AddChatItemAction" THEN [state |-> "null"]
        ELSE IF ~Truthy(item) THEN [state |-> "null"]
        ELSE IF ~IsHandled(item.type) THEN [state |-> "null"]
        ELSE IF ItemThrows(item) THEN [state |-> "threw"]
        ELSE [state |-> "message",
              message |->
                (CASE item.type = "LiveChatTextMessage" ->
                       ParseTextMessage(item, ev.now, ev.random)
                  [] item.type = "LiveChatPaidMessage" ->
                       ParsePaidMessage(item, ev.now, ev.random)
                  [] item.type = "LiveChatPaidSticker" ->
                       ParseStickerMessage(item, ev.now, ev.random)
                  [] item.type = "LiveChatMembershipItem" ->
                       ParseMembershipMessage(item, ev.now, ev.random)
                  [] item.type = "LiveChatSponsorshipsGiftPurchaseAnnouncement" ->
                       ParseGiftPurchaseMessage(item, ev.now, ev.random)
                  [] item.type = "LiveChatSponsorshipsGiftRedemptionAnnouncement" ->
                       ParseGiftRedemptionMessage(item, ev.now, ev.random))]

\* ------------------------------------------------------ parser: raw events
\* Thumbnails: an object with a url, a bare URL string, an object without
\* url, null.
Thumb == [t |-> "object", url |-> Str("a.png")]
ThumbnailLists ==
    {Undefined, JsNull, Arr(<<>>), Arr(<<Thumb>>), Arr(<<Str("a.png")>>),
     Arr(<<JsNull>>), Arr(<<[t |-> "object", url |-> Undefined]>>)}

\* Badges of an author: the tooltip and the URLs found at the seven paths.
Badge(tooltip, urls) == [t |-> "object", tooltip |-> tooltip, urls |-> urls]
NoUrls == <<"", "", "", "", "", "", "">>
MemberBadge == Badge(Str("Member (6 months)"), <<"", "m.png", "", "", "", "", "">>)
NewMemberBadge == Badge(Str("New member"), <<"t.png", "", "", "", "", "", "u.png">>)
VerifiedBadge == Badge(Str("Verified"), NoUrls)
ModeratorBadge == Badge(Str("Moderator"), NoUrls)
PlainBadge == Badge(Undefined, <<"", "", "", "", "", "", "b.png">>)
TextTooltipBadge == Badge([t |-> "object"], <<"", "m.png", "", "", "", "", "">>)

\* author.badges as the transport delivers it: absent or an array of
\* badges whose tooltips are strings or absent.
BadgeLists ==
    {Undefined, JsNull, Arr(<<>>), Arr(<<MemberBadge>>),
     Arr(<<MemberBadge, MemberBadge>>), Arr(<<VerifiedBadge, MemberBadge>>),
     Arr(<<PlainBadge, NewMemberBadge>>), Arr(<<ModeratorBadge>>)}

\* author.badges shaped differently: an object that is no array, an array
\* with a null entry, a tooltip that is an object and not a string.
OddBadgeLists ==
    {[t |-> "object"], Arr(<<JsNull>>), Arr(<<MemberBadge, JsNull>>),
     Arr(<<TextTooltipBadge>>)}

Flags == {Undefined, Bool(TRUE)}

AuthorObject(name, id, thumbnails, owner, moderator, member, verified, badges) ==
    [t |-> "object", name |-> name, id |-> id, thumbnails |-> thumbnails,
     is_owner |-> owner, is_moderator |-> moderator, is_member |-> member,
     is_verified |-> verified, badges |-> badges]

Bob == AuthorObject(Str("Bob"), Str("UC1"), Arr(<<Thumb>>),
                    Undefined, Undefined, Undefined, Undefined, Undefined)

\* Authors of an item: none, every combination of the four flags with
\* every list of badges, and every shape of name, id and thumbnails.
Authors ==
    {Undefined, JsNull}
    \cup {AuthorObject(Str("Bob"), Str("UC1"), Arr(<<Thumb>>), o, m, mb, v, b) :
            o \in Flags, m \in Flags, mb \in Flags, v \in Flags,
            b \in BadgeLists \cup OddBadgeLists}
    \cup {AuthorObject(Str("Bob"), Str("UC1"), Arr(<<Thumb>>),
                       Bool(FALSE), Bool(FALSE), Bool(FALSE), Bool(FALSE), b) :
            b \in BadgeLists}
    \cup {AuthorObject(n, i, th, Undefined, Undefined, Undefined, Undefined, Undefined) :
            n \in {Undefined, Str(""), Str("Bob")}, i \in {Undefined, Str("UC1")},
            th \in ThumbnailLists}

\* Color codes: absent, null, a string, and numbers: 0x1565C0, 0, 0xFF,
\* 0xFFFFFF, 0x1000000, the ARGB code 0xFF1565C0 as an unsigned and as a
\* signed 32-bit number, and -2^31.
ColorCodes ==
    {Undefined, JsNull, Str("#ff0000"),
     Num(0, 1402304), Num(0, 0), Num(0, 255), Num(0, 16777215), Num(1, 0),
     Num(255, 1402304), Num(-1, 1402304), Num(-128, 0)}

\* Message texts with their runs.
Emoji == [t |-> "object", url |-> "e.png", shortcut |-> ":smile:", emoji_id |-> "e1"]
BareEmoji == [t |-> "object", url |-> "", shortcut |-> "", emoji_id |-> ""]
Run(text, emoji) == [t |-> "object", text |-> text, emoji |-> emoji]
TextObject(text, runs) == [t |-> "object", text |-> text, runs |-> runs]

MessageTexts ==
    {Undefined, JsNull,
     TextObject("hello", Undefined),
     TextObject("N/A", Undefined),
     TextObject("hello", Arr(<<>>)),
     TextObject("hi :smile:", Arr(<<Run("hi ", Undefined), Run(":smile:", Emoji)>>)),
     TextObject("", Arr(<<Run("", BareEmoji)>>))}

\* Runs shaped differently: an object that is no array, a null entry.
OddMessageTexts ==
    {TextObject("hello", [t |-> "object"]),
     TextObject("hello", Arr(<<Run("hello", Undefined), JsNull>>))}

\* Before-content buttons.
Button(title, accessibility, tooltip, browse) ==
    [t |-> "object", title |-> title, accessibility_text |-> accessibility,
     tooltip |-> tooltip, browse_id |-> browse]

ButtonLists ==
    {Undefined, JsNull, Arr(<<>>),
     Arr(<<Button(Str("@alice"), Undefined, Undefined, Str("UC2"))>>),
     Arr(<<Button(Undefined, Str("Reply to @bob"), Undefined, Undefined)>>),
     Arr(<<Button(Str("Reply"), Undefined, Str("@alice"), Undefined)>>),
     Arr(<<Button(Str("Reply"), Undefined, Undefined, Undefined),
           Button(Str("@alice"), Undefined, Undefined, Undefined)>>)}

\* Buttons shaped differently: an object that is no array, a null entry, a
\* title that is an object and not a string.
OddButtonLists ==
    {[t |-> "object"], Arr(<<JsNull>>),
     Arr(<<Button([t |-> "object"], Undefined, Undefined, Undefined)>>)}

\* The header of a gift purchase announcement.
Header(text, name, photo, badges) ==
    [t |-> "object", primary_text |-> text, author_name |-> name,
     author_photo |-> photo, author_badges |-> badges]

Headers ==
    {Undefined,
     Header("", Undefined, Undefined, Undefined),
     Header("Gifted 5 memberships", Str("Bob"), Arr(<<Thumb>>), Arr(<<MemberBadge>>)),
     Header("Gifted 5 memberships", Str("Bob"), Arr(<<Thumb>>), Arr(<<VerifiedBadge>>)),
     Header("Gifted 5 memberships", Str("Bob"), Arr(<<Thumb>>), Arr(<<JsNull>>))}

ItemTypes ==
    {"LiveChatTextMessage", "LiveChatPaidMessage", "LiveChatPaidSticker",
     "LiveChatMembershipItem", "LiveChatSponsorshipsGiftPurchaseAnnouncement",
     "LiveChatSponsorshipsGiftRedemptionAnnouncement",
     "LiveChatViewerEngagementMessage", "LiveChatPlaceholderItem"}

\* An item of the given subtype with the given id and author and every
\* other property absent.
Item(type, id, author) ==
    [t |-> "object", type |-> type, id |-> id, author |-> author,
     message |-> Undefined, timestamp |-> 0, purchase_amount |-> "",
     header_background_color |-> Undefined, background_color |-> Undefined,
     sticker |-> [direct |-> "", nested |-> ""],
     sticker_accessibility_label |-> "",
     header_primary_text |-> "", header_subtext |-> "",
     header |-> Undefined, primary_text |-> "",
     author_external_channel_id |-> Undefined,
     before_content_buttons |-> Undefined]

ItemIds == {"", "yt1"}

\* Items: every subtype with every id and author; paid items with every
\* color code; items with every message text, every list of buttons and
\* every header.
Items ==
    {Item(type, id, author) : type \in ItemTypes, id \in ItemIds, author \in Authors}
    \cup {[Item(type, "yt1", Bob) EXCEPT
              !.header_background_color = c, !.background_color = c,
              !.purchase_amount = "$5.00", !.timestamp = 1700000000,
              !.sticker = s, !.sticker_accessibility_label = "YOU ARE AMAZING"] :
            type \in {"LiveChatPaidMessage", "LiveChatPaidSticker"},
            c \in ColorCodes,
            s \in {[direct |-> "s.png", nested |-> ""], [direct |-> "", nested |-> "n.png"]}}
    \cup {[Item(type, "yt1", Bob) EXCEPT
              !.message = text, !.primary_text = p,
              !.header_primary_text = p, !.header_subtext = p] :
            type \in ItemTypes, text \in MessageTexts \cup OddMessageTexts,
            p \in {"", "Member for 3 months"}}
    \cup {[Item("LiveChatTextMessage", "yt1", Bob) EXCEPT
              !.before_content_buttons = buttons] :
            buttons \in ButtonLists \cup OddButtonLists}
    \cup {[Item("LiveChatSponsorshipsGiftPurchaseAnnouncement", "yt1", author) EXCEPT
              !.header = header, !.author_external_channel_id = id] :
            author \in {Undefined, Bob}, header \in Headers,
            id \in {Undefined, Str("UC3")}}

\* Actions of the transport: an addition with an item or without, and
\* other kinds.
ParserActions ==
    {[kind |-> "AddChatItemAction", item |-> item] : item \in Items}
    \cup {[kind |-> kind, item |-> item] :
            kind \in {"AddChatItemAction", "RemoveChatItemAction", "MarkChatItemAsDeletedAction"},
            item \in {Undefined, JsNull, Item("LiveChatTextMessage", "yt1", Bob)}}

\* Date.now(), in seconds, and the digits Math.random() yields.
Clock == {1700000000}
Randoms == {"", "k3f9x2a1b"}

RawEvents ==
    {[action |-> action, now |-> now, random |-> random] :
        action \in ParserActions, now \in Clock, random \in Randoms}

\* ------------------------------------------------------ parser: behaviour
\* parseAction(action) on the raw event drawn at the start.
ParseEvent ==
    /\ parsed.state = "pending"
    /\ rawEvent.action.kind # "none"
    /\ parsed' = ParseAction(rawEvent)
    /\ UNCHANGED <<rawEvent, listeners, sessionVars, sendVars, emitVars, renderVars, pageVars>>

InitParse ==
    /\ InitController
    /\ renderer = Constructor(0)
    /\ rlast = NewLog
    /\ rawEvent \in RawEvents
    /\ parsed = NotParsed
    /\ IdlePage

NextParse == ParseEvent

SpecParse == InitParse /\ [][NextParse]_vars

\* ------------------------------------------------- reentrant subscribers
\* Subscriber callbacks that call connect() or disconnect() on the
\* controller while it publishes to them.  Every registered callback of
\* the channel reacts alike: on the `state` channel to one published state,
\* on the `error` channel to every error.
Reactions ==
    {NoReaction}
    \cup {[event |-> "state", data |-> s, call |-> k] :
            s \in ConnectionState, k \in {"connect", "disconnect"}}
    \cup {[event |-> "error", data |-> "", call |-> k] :
            k \in {"connect", "disconnect"}}

\* The controller, the connect() invocations, the number of calls the
\* callbacks have made in this segment, and whether a callback has been
\* called while the controller was `connected` without a handle.
ThisR == [m |-> This, calls |-> calls, depth |-> 0, observed |-> observed]

CommitR(w) ==
    /\ Commit(w.m)
    /\ calls' = w.calls
    /\ observed' = w.observed

\* The next connect() invocation, 0 when the bound is reached.
FreeCall(w) ==
    IF \E c \in Calls : w.calls[c].pc = "idle"
    THEN CHOOSE c \in Calls :
            /\ w.calls[c].pc = "idle"
            /\ \A d \in Calls : d < c => w.calls[d].pc # "idle"
    ELSE 0

Reacts(w, event, data) ==
    /\ reaction.event = event
    /\ event = "state" => reaction.data = data
    /\ w.depth < MaxDepth
    /\ reaction.call = "connect" => FreeCall(w) # 0

RECURSIVE EmitR(_, _, _, _)
RECURSIVE DisconnectR(_)
RECURSIVE ConnectEntryR(_, _, _)

\* callback(data) for callback i of the channel, inside the try block of
\* _emit: the callback sees the controller as it is and may call into it.
CallbackR(w, event, data, i) ==
    LET w1 == [w EXCEPT
                 !.observed = @ \/ (w.m.connectionState = CONNECTED /\ w.m.livechat = 0),
                 !.m.emitted = Append(@, [ch |-> event, cb |-> w.m.listeners[event][i],
                                          data |-> data])]
        w2 == [w1 EXCEPT !.depth = @ + 1]
    IN  IF ~Reacts(w, event, data) THEN w1
        ELSE IF reaction.call = "disconnect" THEN DisconnectR(w2)
        ELSE ConnectEntryR(w2, FreeCall(w2), "vB")

\* ChatManager._emit from callback i on; the callbacks do not change the
\* subscriptions.
EmitR(w, event, data, i) ==
    IF i > Len(w.m.listeners[event]) THEN w
    ELSE EmitR(CallbackR(w, event, data, i), event, data, i + 1)

\* ChatManager._setState
SetStateR(w, state) ==
    EmitR([w EXCEPT !.m.connectionState = state, !.m.published = Append(@, state)],
          "state", state, 1)

\* ChatManager.disconnect
DisconnectR(w) ==
    LET w1 == IF w.m.livechat # 0
              THEN [w EXCEPT !.m = [Stop(w.m, w.m.livechat) EXCEPT !.livechat = 0]]
              ELSE w
    IN  SetStateR([w1 EXCEPT !.m.videoId = Null], DISCONNECTED)

\* connect(videoId) as invocation c, up to its first await.
ConnectEntryR(w, c, v) ==
    LET w0 == [w EXCEPT !.calls[c] = [pc |-> "entered", videoId |-> v, states |-> <<>>]]
        w1 == IF w0.m.livechat # 0 THEN DisconnectR(w0) ELSE w0
        w2 == SetStateR([w1 EXCEPT !.m.videoId = v], CONNECTING)
    IN  [w2 EXCEPT !.calls[c].pc =
            IF w2.m.innertube = Null THEN "awaitCreate" ELSE "awaitInfo"]

\* connect(), the catch block
ConnectCatchR(w, error) == EmitR(SetStateR(w, ERROR), "error", error, 1)

\* Faulty variant of ConnectFinishR: `connected` is published before the
\* handle is stored.
ConnectFinishEarlyR(w, c) ==
    LET w1 == SetStateR(w, CONNECTED)
    IN  [w1 EXCEPT !.m = Start(SetupLiveChatListeners(
                            [w1.m EXCEPT !.livechat = c, !.handles[c].created = TRUE]), c)]

\* connect(), lines 79-87, once getInfo has resolved with a live chat.
ConnectFinishR(w, c) ==
    SetStateR([w EXCEPT !.m = Start(SetupLiveChatListeners(
                            [w.m EXCEPT !.livechat = c, !.handles[c].created = TRUE]), c)],
              CONNECTED)

\* The 'error' handler, lines 193-228.
HandleErrorR(w, h, errorMsg) ==
    IF IsTransientError(errorMsg) THEN [w EXCEPT !.m = ScheduleRetry(w.m, h)]
    ELSE IF IsSendRelatedError(errorMsg) THEN w
    ELSE EmitR(SetStateR(w, ERROR), "error", errorMsg, 1)

\* The transport's emit of 'error' and of 'end' to the n handler sets
\* attached to h.
RECURSIVE DeliverR(_, _, _, _)
DeliverR(w, h, ev, n) ==
    IF n = 0 THEN w
    ELSE DeliverR(IF ev.name = "error" THEN HandleErrorR(w, h, ev.data)
                  ELSE SetStateR(w, ENDED),
                  h, ev, n - 1)

\* One error text for each branch of the error handler: retried, ignored,
\* published.
ReentrantErrors ==
    {"TypeError: Failed to fetch", "sendMessage failed", "Unexpected response"}

ConnectReentrant(c, v) ==
    /\ FreeCall(ThisR) = c
    /\ c = 1 => v = "vA"
    /\ CommitR(ConnectEntryR(ThisR, c, v))
    /\ overlapped' = (overlapped \/ \E d \in Calls : Awaiting(d))
    /\ last' = Segment("connect", c, v)
    /\ UNCHANGED <<reaction, evicting, escaping, page, settings, boot, panel, sendVars, emitVars, renderVars, parseVars>>

LookupRejectedReentrant(c) ==
    /\ Awaiting(c)
    /\ CommitR(ConnectCatchR([ThisR EXCEPT !.calls[c].pc = "done"], "Request failed"))
    /\ last' = Segment("lookupRejected", c, "")
    /\ UNCHANGED <<overlapped, reaction, evicting, escaping, page, settings, boot, panel, sendVars, emitVars, renderVars, parseVars>>

InfoWithoutChatReentrant(c) ==
    /\ calls[c].pc = "awaitInfo"
    /\ CommitR(ConnectCatchR([ThisR EXCEPT !.calls[c].pc = "done"], NoLiveChatText))
    /\ last' = Segment("infoWithoutChat", c, "")
    /\ UNCHANGED <<overlapped, reaction, evicting, escaping, page, settings, boot, panel, sendVars, emitVars, renderVars, parseVars>>

InfoResolvedReentrant(c) ==
    /\ calls[c].pc = "awaitInfo"
    /\ CommitR(ConnectFinishR([ThisR EXCEPT !.calls[c].pc = "done"], c))
    /\ last' = Segment("infoResolved", c, "")
    /\ UNCHANGED <<overlapped, reaction, evicting, escaping, page, settings, boot, panel, sendVars, emitVars, renderVars, parseVars>>

DisconnectReentrant ==
    /\ CommitR(DisconnectR(ThisR))
    /\ last' = Segment("disconnect", 0, "")
    /\ UNCHANGED <<overlapped, reaction, evicting, escaping, page, settings, boot, panel, sendVars, emitVars, renderVars, parseVars>>

ErrorEventReentrant(h, errorMsg) ==
    /\ handles[h].attached > 0
    /\ IsTransientError(errorMsg) => Len(timers) < MaxTimers
    /\ CommitR(DeliverR(ThisR, h, [name |-> "error", data |-> errorMsg],
                        handles[h].attached))
    /\ last' = Segment("error", h, errorMsg)
    /\ UNCHANGED <<overlapped, reaction, evicting, escaping, page, settings, boot, panel, sendVars, emitVars, renderVars, parseVars>>

EndEventReentrant(h) ==
    /\ handles[h].attached > 0
    /\ CommitR(DeliverR(ThisR, h, [name |-> "end", data |-> ""], handles[h].attached))
    /\ last' = Segment("end", h, "")
    /\ UNCHANGED <<overlapped, reaction, evicting, escaping, page, settings, boot, panel, sendVars, emitVars, renderVars, parseVars>>

\* The subscribers' behaviour is fixed before the first call.
InitReentrant ==
    /\ InitController
    /\ renderer = Constructor(0)
    /\ rlast = NewLog
    /\ NoParse
    /\ reaction \in Reactions
    /\ observed = FALSE
    /\ evicting = "idle"
    /\ escaping = NoInsertion
    /\ page = NoPage
    /\ settings = NoSettings
    /\ boot = NoBoot
    /\ panel = NoPanel

NextReentrant ==
    \/ \E event \in {"state", "error"}, callback \in Callbacks : On(event, callback)
    \/ \E c \in Calls, v \in Videos : ConnectReentrant(c, v)
    \/ \E c \in Calls : CreateResolved(c)
    \/ \E c \in Calls : LookupRejectedReentrant(c)
    \/ \E c \in Calls : InfoWithoutChatReentrant(c)
    \/ \E c \in Calls : InfoResolvedReentrant(c)
    \/ DisconnectReentrant
    \/ \E h \in Handles, errorMsg \in ReentrantErrors : ErrorEventReentrant(h, errorMsg)
    \/ \E h \in Handles : EndEventReentrant(h)
    \/ RetryTimer

SpecReentrant == InitReentrant /\ [][NextReentrant]_vars

\* ------------------------------------------- the eviction loop, stepwise
\* _enforceMaxMessages one loop iteration at a time.  The page is single
\* threaded: while the loop runs no other operation of the renderer starts.

notEvicting ==
    <<rlast, listeners, sessionVars, sendVars, emitVars, parseVars, reentVars, escaping, page,
      settings, boot, panel>>

\* One evaluation of the loop condition and, when it holds, of the body:
\* shift() takes the oldest record, or undefined from an empty log, and
\* then nothing is removed.
EvictIteration(r) ==
    IF r.messages = <<>> THEN r
    ELSE LET oldest == Head(r.messages)
             r1 == [r EXCEPT !.messages = Tail(@)]
         IN  IF Attached(r1, oldest.element) THEN RemoveNode(r1, oldest.element) ELSE r1

\* addMessage up to the call of _enforceMaxMessages.
AddMessageEvict(message) ==
    /\ evicting = "idle"
    /\ renderer.created < MaxNodes
    /\ LET el == renderer.created + 1
       IN  renderer' = [renderer EXCEPT
                          !.created = el,
                          !.container = Append(@, [kind |-> "message", element |-> el,
                                                   id |-> message, text |-> ""]),
                          !.messages = Append(@, [id |-> message, element |-> el])]
    /\ evicting' = "addMessage"
    /\ UNCHANGED notEvicting

\* setMaxMessages(max) up to the call of _enforceMaxMessages.
SetMaxMessagesEvict(max) ==
    /\ evicting = "idle"
    /\ renderer' = [renderer EXCEPT !.maxMessages = max]
    /\ evicting' = "setMaxMessages"
    /\ UNCHANGED notEvicting

ClearEvict ==
    /\ evicting = "idle"
    /\ renderer' = ClearBody(renderer)
    /\ UNCHANGED <<evicting, notEvicting>>

\* The while loop of _enforceMaxMessages: an iteration while the condition
\* holds, otherwise the return to the caller, where addMessage scrolls.
EvictStep ==
    /\ evicting # "idle"
    /\ IF Len(renderer.messages) > renderer.maxMessages
       THEN /\ renderer' = EvictIteration(renderer)
            /\ UNCHANGED evicting
       ELSE /\ renderer' = IF evicting = "addMessage" /\ renderer.autoScroll
                           THEN ScrollToBottom(renderer) ELSE renderer
            /\ evicting' = "idle"
    /\ UNCHANGED notEvicting

InitEvict ==
    /\ InitController
    /\ \E option \in Options : renderer = Constructor(option)
    /\ rlast = NewLog
    /\ NoParse
    /\ IdlePage

NextEvict ==
    \/ \E message \in MessageIds : AddMessageEvict(message)
    \/ \E max \in (0 - MaxBelow)..MaxLimit : SetMaxMessagesEvict(max)
    \/ ClearEvict
    \/ EvictStep

\* Once called, the loop is not preempted: it takes its next iteration.
\* An iteration on an empty log changes nothing, so a loop that spins
\* there is a behaviour that repeats one state for ever.
SpecEvict == InitEvict /\ [][NextEvict]_vars /\ WF_vars(EvictStep)

\* ------------------------------------------- escaping in message markup
\* _createMessageElement builds the markup of a message by interpolating
\* its strings into a template.  A string is a sequence of characters; the
\* markup written for it is a sequence of characters and character
\* references.

HtmlChars == {"a", "&", "<", ">", "\"", "'"}

HtmlTexts == UNION {[1..n -> HtmlChars] : n \in 0..MaxText}

\* The places of the template a string of the message is interpolated into,
\* each with the context it stands in: element content ("text"), a
\* double-quoted attribute value ("attribute"), or the single-quoted
\* script string inside the double-quoted onerror attribute ("handler").
Insertions ==
    {[field |-> "author.avatarUrl", context |-> "attribute"],
     [field |-> "author.name", context |-> "attribute"],
     [field |-> "author.name", context |-> "text"],
     [field |-> "replyTo.username", context |-> "attribute"],
     [field |-> "replyTo.username", context |-> "text"],
     [field |-> "paidInfo.amount", context |-> "text"],
     [field |-> "membershipInfo.duration", context |-> "text"],
     [field |-> "membershipInfo.level", context |-> "text"],
     [field |-> "badge.url", context |-> "attribute"],
     [field |-> "badge.label", context |-> "attribute"],
     [field |-> "message.text", context |-> "text"],
     [field |-> "run.url", context |-> "attribute"],
     [field |-> "run.alt", context |-> "attribute"],
     [field |-> "run.text", context |-> "handler"],
     [field |-> "run.text", context |-> "text"]}

\* The serialization of one character of a text node by innerHTML.
EscapeChar(ch) ==
    CASE ch = "&" -> "&amp;"
      [] ch = "<" -> "&lt;"
      [] ch = ">" -> "&gt;"
      [] OTHER -> ch

\* Faulty variant of EscapeHtml: the text is inserted as it is.
EscapeHtmlRaw(text) == text

\* MessageRenderer._escapeHtml: div.textContent = text; return div.innerHTML
EscapeHtml(text) == [i \in 1..Len(text) |-> EscapeChar(text[i])]

\* The character a piece of markup stands for once the HTML parser has
\* decoded character references.
DecodeChar(piece) ==
    CASE piece = "&amp;" -> "&"
      [] piece = "&lt;" -> "<"
      [] piece = "&gt;" -> ">"
      [] OTHER -> piece

Decode(markup) == [i \in 1..Len(markup) |-> DecodeChar(markup[i])]

Occurs(ch, s) == \E i \in 1..Len(s) : s[i] = ch

\* The markup leaves the context it was written in: in element content a
\* "<" opens a tag; an attribute value ends at the double quote; the
\* handler's attribute value ends at the double quote, and the script
\* string in it, which the script engine reads after the character
\* references have been decoded, ends at the single quote.
EndsContext(context, markup) ==
    CASE context = "text" -> Occurs("<", markup)
      [] context = "attribute" -> Occurs("\"", markup)
      [] context = "handler" -> Occurs("\"", markup) \/ Occurs("'", Decode(markup))

\* The interpolation of the drawn string at the drawn place.
RenderInsertion ==
    /\ ~escaping.rendered
    /\ escaping' = [escaping EXCEPT !.markup = EscapeHtml(escaping.text),
                                    !.rendered = TRUE]
    /\ UNCHANGED <<listeners, sessionVars, sendVars, emitVars, renderVars, parseVars, reentVars, evicting, page, settings, boot, panel>>

InitEscape ==
    /\ InitController
    /\ renderer = Constructor(0)
    /\ rlast = NewLog
    /\ NoParse
    /\ reaction = NoReaction
    /\ observed = FALSE
    /\ evicting = "idle"
    /\ page = NoPage
    /\ settings = NoSettings
    /\ boot = NoBoot
    /\ panel = NoPanel
    /\ \E place \in Insertions, text \in HtmlTexts :
         escaping = [field |-> place.field, context |-> place.context,
                     text |-> text, markup |-> <<>>, rendered |-> FALSE]

NextEscape == RenderInsertion

SpecEscape == InitEscape /\ [][NextEscape]_vars

\* ------------------------------------- the content script (content/index.js)
\* The overlay, the message renderer and the chat connection as the content
\* script drives them; the chat manager is the singleton of getChatManager.

\* What the listeners installed by connectChat do with the values the
\* manager has published to them in one segment, in order.  Every `state`
\* listener sets chatConnected; every `message` listener calls
\* messageRenderer.addMessage when there is a renderer.
RECURSIVE PageCallbacks(_, _)
PageCallbacks(p, published) ==
    IF published = <<>> THEN p
    ELSE LET e == Head(published)
             p1 == CASE e.ch = "state" /\ e.data = CONNECTED ->
                           [p EXCEPT !.chatConnected = TRUE]
                      [] e.ch = "state" /\ e.data \in {ERROR, ENDED} ->
                           [p EXCEPT !.chatConnected = FALSE]
                      [] e.ch = "message" /\ p.messageRenderer ->
                           [p EXCEPT !.addCalls = @ + 1]
                      [] OTHER -> p
         IN  PageCallbacks(p1, Tail(published))

\* The page after a segment of the manager that published m.emitted.
PageAfter(p, m) == PageCallbacks([p EXCEPT !.addCalls = 0], m.emitted)

\* connectChat, lines 198-224: the three chatManager.on calls.
ConnectChatListeners(m) ==
    OnBody(OnBody(OnBody(m, "message", "onMessage"), "state", "onState"),
           "error", "onError")

\* connectChat up to its await: the listeners, then chatManager.connect.
ConnectChat(m, v) == ConnectEntry(ConnectChatListeners(m), v)

\* The overlay after toggleOverlay: a new overlay is created without the
\* chatover-hidden class, which the toggle then adds.
Toggled(overlay) == IF overlay = "hidden" THEN "visible" ELSE "hidden"

\* toggleOverlay(), by the toggle button or by init(); connectChat runs up
\* to its await in the same segment, as connect() invocation c.
ToggleOverlay(c, v) ==
    LET p1 == [page EXCEPT !.overlay = Toggled(@), !.messageRenderer = TRUE]
        connects == p1.overlay = "visible" /\ ~page.chatConnected
        m == IF connects THEN ConnectChat(This, v) ELSE This
    IN  /\ connects => /\ calls[c].pc = "idle"
                       /\ \A d \in Calls : d < c => calls[d].pc # "idle"
        /\ ~connects => c = 1 /\ v = "vA"
        /\ Commit(m)
        /\ page' = PageAfter(p1, m)
        /\ calls' = IF connects
                    THEN [calls EXCEPT ![c] =
                            [pc |-> IF innertube = Null THEN "awaitCreate" ELSE "awaitInfo",
                             videoId |-> v, states |-> m.published]]
                    ELSE calls
        /\ last' = Segment("toggleOverlay", 0, "")
        /\ UNCHANGED <<overlapped, notPage>>

\* cleanup(), run by the navigation listeners: disconnectChat, then the
\* overlay is removed and the script's state is reset.
Cleanup ==
    LET m == DisconnectBody(This)
    IN  /\ Commit(m)
        /\ page' = [PageAfter(page, m) EXCEPT !.overlay = "none",
                                              !.messageRenderer = FALSE,
                                              !.chatConnected = FALSE]
        /\ last' = Segment("cleanup", 0, "")
        /\ UNCHANGED <<calls, overlapped, notPage>>

\* The continuation of chatManager.connect once getInfo has resolved with
\* a live chat, or once a lookup was rejected.
ConnectSettled(c, ok) ==
    LET m == IF ok THEN ConnectFinish(This, c) ELSE ConnectCatch(This, "Request failed")
    IN  /\ IF ok THEN calls[c].pc = "awaitInfo" ELSE Awaiting(c)
        /\ Commit(m)
        /\ page' = PageAfter(page, m)
        /\ calls' = [calls EXCEPT ![c].pc = "done", ![c].states = @ \o m.published]
        /\ last' = Segment(IF ok THEN "infoResolved" ELSE "lookupRejected", c, "")
        /\ UNCHANGED <<overlapped, notPage>>

\* Handle h delivers a chat message or the end of the stream.
PageTransportEvent(h, ev) ==
    LET m == Deliver(This, h, ev, handles[h].attached)
    IN  /\ handles[h].attached > 0
        /\ Commit(m)
        /\ page' = PageAfter(page, m)
        /\ last' = Segment(ev.name, h, "")
        /\ UNCHANGED <<calls, overlapped, notPage>>

TextMessageAction == [kind |-> "AddChatItemAction", item |-> "LiveChatTextMessage"]

InitPage ==
    /\ InitController
    /\ renderer = Constructor(0)
    /\ rlast = NewLog
    /\ NoParse
    /\ IdlePage

NextPage ==
    \/ \E c \in Calls, v \in Videos : ToggleOverlay(c, v)
    \/ Cleanup
    \/ \E c \in Calls : CreateResolved(c)
    \/ \E c \in Calls, ok \in BOOLEAN : ConnectSettled(c, ok)
    \/ \E h \in Handles :
         PageTransportEvent(h, [name |-> "chat-update", data |-> TextMessageAction])
    \/ \E h \in Handles : PageTransportEvent(h, [name |-> "end", data |-> ""])

SpecPage == InitPage /\ [][NextPage]_vars

\* ------------------------------ the settings store (SettingsManager.js)
\* saveSettings(settings): merge, clear the previous timer, set a new one.
SaveSettingsBody(s, values) ==
    [s EXCEPT !.current = [k \in SettingKeys |-> values[k]],
              !.windows = IF s.pending = 0 THEN @ + 1 ELSE @,
              !.pending = 1]

\* setSetting(key, value)
SetSetting(key, value) ==
    /\ settings.sets < MaxSets
    /\ LET s1 == [settings EXCEPT !.current[key] = value,
                                  !.wanted[key] = value,
                                  !.sets = @ + 1]
       IN  settings' = SaveSettingsBody(s1, s1.current)
    /\ UNCHANGED <<listeners, sessionVars, sendVars, emitVars, renderVars, parseVars, reentVars, evicting, escaping, page, boot, panel>>

\* loadSettings() up to its await: storage.get('settings') is issued and
\* reads the storage area.
LoadSettings ==
    /\ ~settings.loading
    /\ settings' = [settings EXCEPT !.loading = TRUE, !.read = settings.stored]
    /\ UNCHANGED <<listeners, sessionVars, sendVars, emitVars, renderVars, parseVars, reentVars, evicting, escaping, page, boot, panel>>

\* loadSettings() after the await: the stored settings merged over the
\* defaults replace currentSettings.
LoadSettingsResolved ==
    /\ settings.loading
    /\ settings' = [settings EXCEPT
                      !.loading = FALSE,
                      !.current = IF settings.read.present THEN settings.read.values
                                  ELSE DEFAULT_SETTINGS]
    /\ UNCHANGED <<listeners, sessionVars, sendVars, emitVars, renderVars, parseVars, reentVars, evicting, escaping, page, boot, panel>>

\* The save timer fires: storage.set({ settings: currentSettings }) with
\* currentSettings as it is now.
SaveTimer ==
    /\ settings.pending > 0
    /\ settings' = [settings EXCEPT
                      !.pending = @ - 1,
                      !.stored = [present |-> TRUE, values |-> settings.current],
                      !.writes = @ + 1]
    /\ UNCHANGED <<listeners, sessionVars, sendVars, emitVars, renderVars, parseVars, reentVars, evicting, escaping, page, boot, panel>>

InitSettings ==
    /\ InitController
    /\ renderer = Constructor(0)
    /\ rlast = NewLog
    /\ NoParse
    /\ IdlePage

NextSettings ==
    \/ \E key \in SettingKeys, value \in SettingValues : SetSetting(key, value)
    \/ LoadSettings
    \/ LoadSettingsResolved
    \/ SaveTimer

SpecSettings == InitSettings /\ [][NextSettings]_vars

\* ----------------------------- init sessions of the content script
\* init() and cleanup() of the content script with init tokens.  The token
\* of a session (Date.now() + Math.random(), taken at least 500 ms after
\* the previous one) is the session's number; 0 is null.
Sessions == 1..MaxSessions

InitAwaiting(b, i) == b.sessions[i].pc \in {"awaitContent", "awaitLive", "awaitStorage"}

\* Faulty variant of TokenValid: the token is not compared.
TokenValidAlways(b, i) == TRUE

\* currentInitToken === thisInitToken
TokenValid(b, i) == b.currentInitToken = i

\* Session i sets isInitialized, inserts the button or toggles the overlay.
Acts(b, i) ==
    [b EXCEPT !.staleAct = @ \/ b.sessions[i].invalidated \/ b.currentInitToken # i]

\* cleanup(): the init timer is cleared, the token invalidated, the button
\* and the overlay removed, the flags reset.
CleanupBody(b) ==
    [b EXCEPT !.initTimer = FALSE, !.currentInitToken = 0,
              !.button = FALSE, !.overlayShown = FALSE,
              !.isInitialized = FALSE, !.isInitializing = FALSE,
              !.sessions = [i \in Sessions |->
                              [@[i] EXCEPT !.invalidated =
                                  @ \/ InitAwaiting(b, i) \/ b.sessions[i].retry]]]

\* insertButton of session i: the token check, then insertToggleButton,
\* which finds the teaser carousel or not; a retry timer otherwise.
InsertButton(b, i, found) ==
    IF ~TokenValid(b, i) THEN [b EXCEPT !.sessions[i].retry = FALSE]
    ELSE IF b.button THEN [b EXCEPT !.sessions[i].retry = FALSE]
    ELSE IF found THEN [Acts(b, i) EXCEPT !.button = TRUE, !.sessions[i].retry = FALSE]
    ELSE [b EXCEPT !.sessions[i].retry = TRUE, !.sessions[i].tries = @ + 1]

\* yt-navigate-finish or popstate: cleanup(), then the init timer is set.
Navigate ==
    /\ boot' = [CleanupBody(boot) EXCEPT !.initTimer = TRUE]
    /\ UNCHANGED <<listeners, sessionVars, sendVars, emitVars, renderVars, parseVars, reentVars, evicting, escaping, page, settings, panel>>

\* The init timer fires: init() as session i up to its first await.
InitBegin(i) ==
    /\ boot.initTimer
    /\ boot.sessions[i].pc = "idle"
    /\ \A j \in Sessions : j < i => boot.sessions[j].pc # "idle"
    /\ LET b == [boot EXCEPT !.initTimer = FALSE, !.currentInitToken = i]
       IN  boot' = IF b.isInitialized \/ b.isInitializing
                   THEN [b EXCEPT !.sessions[i].pc = "done"]
                   ELSE [b EXCEPT !.isInitializing = TRUE,
                                  !.sessions[i].pc = "awaitContent"]
    /\ UNCHANGED <<listeners, sessionVars, sendVars, emitVars, renderVars, parseVars, reentVars, evicting, escaping, page, settings, panel>>

\* waitForElement('#content') settled: found or timed out; then the token
\* check and the watch page check.
ContentSettled(i, found, watchPage) ==
    /\ boot.sessions[i].pc = "awaitContent"
    /\ boot' = IF found /\ TokenValid(boot, i) /\ watchPage
               THEN [boot EXCEPT !.sessions[i].pc = "awaitLive"]
               ELSE [boot EXCEPT !.isInitializing = FALSE, !.sessions[i].pc = "done"]
    /\ UNCHANGED <<listeners, sessionVars, sendVars, emitVars, renderVars, parseVars, reentVars, evicting, escaping, page, settings, panel>>

\* waitForLiveStreamIndicator resolved: the token check, isInitialized,
\* the first insertButton, then storage.sync.get is awaited.
LiveSettled(i, isLive, found) ==
    /\ boot.sessions[i].pc = "awaitLive"
    /\ boot' = IF TokenValid(boot, i) /\ isLive
               THEN LET b == [Acts(boot, i) EXCEPT !.isInitialized = TRUE,
                                                   !.isInitializing = FALSE]
                    IN  [InsertButton(b, i, found) EXCEPT
                            !.sessions[i].pc = "awaitStorage"]
               ELSE [boot EXCEPT !.isInitializing = FALSE, !.sessions[i].pc = "done"]
    /\ UNCHANGED <<listeners, sessionVars, sendVars, emitVars, renderVars, parseVars, reentVars, evicting, escaping, page, settings, panel>>

\* The insertButton retry timer of session i fires.
InsertButtonRetry(i, found) ==
    /\ boot.sessions[i].retry
    /\ ~found => boot.sessions[i].tries < MaxTries
    /\ boot' = InsertButton(boot, i, found)
    /\ UNCHANGED <<listeners, sessionVars, sendVars, emitVars, renderVars, parseVars, reentVars, evicting, escaping, page, settings, panel>>

\* storage.sync.get(['visible']) resolved: the final token check, then
\* toggleOverlay() when the overlay was visible last time.
StorageSettled(i, visible) ==
    /\ boot.sessions[i].pc = "awaitStorage"
    /\ boot' = IF TokenValid(boot, i) /\ visible
               THEN [Acts(boot, i) EXCEPT !.overlayShown = ~@, !.sessions[i].pc = "done"]
               ELSE [boot EXCEPT !.sessions[i].pc = "done"]
    /\ UNCHANGED <<listeners, sessionVars, sendVars, emitVars, renderVars, parseVars, reentVars, evicting, escaping, page, settings, panel>>

InitBoot ==
    /\ InitController
    /\ renderer = Constructor(0)
    /\ rlast = NewLog
    /\ NoParse
    /\ IdlePage

NextBoot ==
    \/ Navigate
    \/ \E i \in Sessions : InitBegin(i)
    \/ \E i \in Sessions, found \in BOOLEAN, watchPage \in BOOLEAN :
         ContentSettled(i, found, watchPage)
    \/ \E i \in Sessions, isLive \in BOOLEAN, found \in BOOLEAN :
         LiveSettled(i, isLive, found)
    \/ \E i \in Sessions, found \in BOOLEAN : InsertButtonRetry(i, found)
    \/ \E i \in Sessions, visible \in BOOLEAN : StorageSettled(i, visible)

SpecBoot == InitBoot /\ [][NextBoot]_vars

\* ------------------------------------- the settings panel (SettingsPanel.js)
Panels == 1..MaxPanels

\* SettingsPanel.open up to its await: nothing when the panel is open,
\* otherwise createPanel() is awaited.
OpenBody(q, k) ==
    IF q.instances[k].isOpen THEN q
    ELSE [q EXCEPT !.instances[k].opening = @ + 1]

\* SettingsPanel.close: nothing unless open with a panel; the removal is
\* left to a 200 ms timer.
CloseBody(q, k) ==
    IF ~q.instances[k].isOpen \/ q.instances[k].panel = 0 THEN q
    ELSE [q EXCEPT !.instances[k].closing = @ + 1]

\* openSettings(), by a click on the settings button, making instance k
\* when none is open.
OpenSettings(k) ==
    /\ \A j \in Panels : j < k => panel.instances[j].made
    /\ ~panel.instances[k].made
    /\ \A j \in Panels : panel.instances[j].closing < MaxElements
    /\ panel' = IF panel.settingsPanel # 0 /\ panel.instances[panel.settingsPanel].isOpen
                THEN CloseBody(panel, panel.settingsPanel)
                ELSE OpenBody([panel EXCEPT !.settingsPanel = k,
                                            !.instances[k].made = TRUE], k)
    /\ UNCHANGED <<listeners, sessionVars, sendVars, emitVars, renderVars, parseVars, reentVars, evicting, escaping, page, settings, boot>>

\* A further open() on the instance openSettings holds.
OpenAgain ==
    /\ panel.settingsPanel # 0
    /\ panel.instances[panel.settingsPanel].opening + panel.created < MaxElements
    /\ panel' = OpenBody(panel, panel.settingsPanel)
    /\ UNCHANGED <<listeners, sessionVars, sendVars, emitVars, renderVars, parseVars, reentVars, evicting, escaping, page, settings, boot>>

\* createPanel() resolved for an open() of instance k: the new element is
\* stored, appended to the video player, and the panel is open.
CreatePanelResolved(k) ==
    /\ panel.instances[k].opening > 0
    /\ panel.created < MaxElements
    /\ LET el == panel.created + 1
       IN  panel' = [panel EXCEPT !.created = el,
                                  !.instances[k].opening = @ - 1,
                                  !.instances[k].panel = el,
                                  !.instances[k].isOpen = TRUE,
                                  !.attached = @ \cup {el}]
    /\ UNCHANGED <<listeners, sessionVars, sendVars, emitVars, renderVars, parseVars, reentVars, evicting, escaping, page, settings, boot>>

\* Escape, or a click outside the panel: close().
ClosePanel(k) ==
    /\ panel.instances[k].isOpen
    /\ panel.instances[k].panel # 0
    /\ panel.instances[k].closing = 0
    /\ panel' = CloseBody(panel, k)
    /\ UNCHANGED <<listeners, sessionVars, sendVars, emitVars, renderVars, parseVars, reentVars, evicting, escaping, page, settings, boot>>

\* The timer of close() fires: the panel element is removed, the instance
\* reset, and the callback of openSettings clears settingsPanel.
CloseTimer(k) ==
    /\ panel.instances[k].closing > 0
    /\ panel' = [panel EXCEPT !.attached = @ \ {panel.instances[k].panel},
                              !.instances[k].panel = 0,
                              !.instances[k].isOpen = FALSE,
                              !.instances[k].closing = @ - 1,
                              !.settingsPanel = 0]
    /\ UNCHANGED <<listeners, sessionVars, sendVars, emitVars, renderVars, parseVars, reentVars, evicting, escaping, page, settings, boot>>

InitPanel ==
    /\ InitController
    /\ renderer = Constructor(0)
    /\ rlast = NewLog
    /\ NoParse
    /\ IdlePage

NextPanel ==
    \/ \E k \in Panels : OpenSettings(k)
    \/ OpenAgain
    \/ \E k \in Panels : CreatePanelResolved(k)
    \/ \E k \in Panels : ClosePanel(k)
    \/ \E k \in Panels : CloseTimer(k)

SpecPanel == InitPanel /\ [][NextPanel]_vars

\* ------------------------------------------------------------ properties
EventOps == {"start", "chat-update", "metadata-update", "error", "end"}

\* Handles on which start() was called and stop() was not called since.
RunningHandles == {h \in Handles : handles[h].running}

\* The callback invocations of a segment on the given channels.
OnChannels(seq, chs) == SelectSeq(seq, LAMBDA e : e.ch \in chs)

\* The start() calls of a segment.
StartCalls(seq) == SelectSeq(seq, LAMBDA t : t.call = "start")

\* Every connect() issued so far has settled.
AllSettled == \A c \in Calls : calls[c].pc \in {"idle", "done"}

\* C1: when connect() is called again before the earlier call's lookups
\* have resolved, then once both calls have settled (each having obtained
\* its live chat) exactly one transport handle is started-and-not-stopped
\* with the controller's listeners on it, and it is the held one.
C1_OneSessionAfterOverlap ==
    (/\ overlapped
     /\ AllSettled
     /\ \A c \in Calls : calls[c].pc = "done" => handles[c].created
     /\ last.op = "infoResolved")
    => /\ Cardinality({h \in RunningHandles : handles[h].attached > 0}) = 1
       /\ livechat \in RunningHandles

\* C2: a connect() whose lookups were still awaited when disconnect() put
\* the controller in `disconnected` is inert when it settles: the state is
\* still `disconnected`, no handle is held and its handle is not started.
C2_InFlightConnectInert ==
    (/\ last.op \in {"infoResolved", "infoWithoutChat", "lookupRejected"}
     /\ last.state = DISCONNECTED)
    => /\ connectionState = DISCONNECTED
       /\ livechat = 0
       /\ ~handles[last.id].running

\* C3: a retry timer set while handle S was held, firing when S is no
\* longer the held handle (disconnect() then a new connect(), or a fresh
\* connect(), each issued after the earlier call had settled), makes no
\* transport call; in particular it does not call start() on the newer
\* handle.
C3_StaleRetryInert ==
    (last.op = "timer" /\ last.id # 0 /\ last.id # last.held /\ ~overlapped)
    => trace = <<>>

\* C4: an event emitted by a handle that is no longer the held one (after
\* disconnect() or a later connect()) neither changes connectionState nor
\* invokes any subscriber.
C4_StaleEventsIgnored ==
    (last.op \in EventOps /\ last.id # last.held)
    => (connectionState = last.state /\ emitted = <<>>)

\* C5: a connect() issued while a handle is held calls stop() on that
\* handle first, releases it and starts nothing in that segment; and as
\* long as every connect() was issued after the earlier ones had settled,
\* no handle other than the held one is started-and-not-stopped.
C5_TeardownBeforeConnect ==
    /\ ~overlapped => RunningHandles \subseteq {livechat}
    /\ (last.op = "connect" /\ last.held # 0)
        => /\ trace = <<[call |-> "stop", h |-> last.held, delay |-> 0]>>
           /\ ~handles[last.held].running
           /\ livechat = 0
           /\ connectionState = CONNECTING

\* C5 witness: a connect() that found a running handle and stopped it,
\* every connect() so far having been issued after the earlier had settled.
C5_Witness ==
    /\ last.op = "connect"
    /\ last.held # 0
    /\ last.state \in {CONNECTED, ERROR, ENDED}
    /\ ~overlapped
    /\ trace # <<>>
    /\ trace[1].call = "stop"

\* C6: while the state is `connected`, an error whose text contains
\* "Failed to fetch" or "NetworkError" leaves the state `connected` and
\* invokes no `error` or `state` subscriber, and so does a retry timer
\* that fires while the state is `connected`.
C6_TransientKeepsConnected ==
    (/\ last.state = CONNECTED
     /\ \/ /\ last.op = "error"
           /\ \/ Includes(last.arg, "Failed to fetch")
              \/ Includes(last.arg, "NetworkError")
        \/ last.op = "timer")
    => /\ connectionState = CONNECTED
       /\ OnChannels(emitted, {"error", "state"}) = <<>>

\* C6 witness: a NetworkError arrived in `connected` with `error` and
\* `state` subscribers present, and its retry is pending.
C6_Witness ==
    /\ last.op = "error"
    /\ Includes(last.arg, "NetworkError")
    /\ last.state = CONNECTED
    /\ listeners["error"] # <<>>
    /\ listeners["state"] # <<>>
    /\ timers # <<>>

\* C7: an error whose text sendMessage would classify as not_allowed
\* ("not allowed", "permission", "subscriber", "DimChatItemAction") or
\* that names the send operation ("sendMessage") never changes
\* connectionState and never invokes an `error` subscriber.
C7_SendRestrictionIgnored ==
    (/\ last.op = "error"
     /\ \E p \in {"not allowed", "permission", "subscriber",
                  "DimChatItemAction", "sendMessage"} : Includes(last.arg, p))
    => /\ connectionState = last.state
       /\ OnChannels(emitted, {"error"}) = <<>>

\* C8: an error whose text matches neither the transient patterns nor the
\* send-related patterns of the error handler sets the state to `error`
\* and invokes every `error` subscriber exactly once, in subscription
\* order, with that error.
C8_OtherErrorsSurface ==
    (/\ last.op = "error"
     /\ \A p \in {"Failed to fetch", "NetworkError", "DimChatItemAction",
                  "sendMessage", "not allowed", "permission"} : ~Includes(last.arg, p))
    => /\ connectionState = ERROR
       /\ OnChannels(emitted, {"error"}) =
            [i \in 1..Len(listeners["error"]) |->
                [ch |-> "error", cb |-> listeners["error"][i], data |-> last.arg]]

\* C8 witness: an unrelated error reached an `error` subscriber.
C8_Witness ==
    /\ last.op = "error"
    /\ last.arg = "Unexpected response"
    /\ connectionState = ERROR
    /\ Len(OnChannels(emitted, {"error"})) >= 1

\* C9: a transient error sets exactly one timer, with the 2000 ms delay;
\* a firing timer is consumed, sets no further timer, calls start() at
\* most once and not at all when the state is `disconnected`.
C9_OneRetryPerError ==
    /\ (last.op = "error" /\ (Includes(last.arg, "Failed to fetch")
                              \/ Includes(last.arg, "NetworkError")))
        => /\ Len(timers) = last.pending + 1
           /\ trace = <<[call |-> "setTimeout", h |-> last.id, delay |-> RetryDelayMs]>>
    /\ last.op = "timer"
        => /\ Len(timers) = last.pending - 1
           /\ trace = StartCalls(trace)
           /\ Len(trace) <= 1
           /\ last.state = DISCONNECTED => trace = <<>>

\* C9 witness: a retry timer fired and called start() once.
C9_Witness ==
    /\ last.op = "timer"
    /\ Len(StartCalls(trace)) = 1

\* C10: once the state is `ended`, no transport event and no retry timer
\* takes it out of `ended`.
C10_EndedIsTerminal ==
    (last.state = ENDED /\ last.op \in EventOps \cup {"timer"})
    => connectionState = ENDED

\* What every subscriber of a channel receives when data is published once.
Deliveries(event, data) ==
    [i \in 1..Len(listeners[event]) |->
        [ch |-> event, cb |-> listeners[event][i], data |-> data]]

\* C11: disconnect() leaves the state `disconnected`, no handle and no
\* stream id, and calls stop() exactly once on the handle it held; when no
\* handle is held (a second disconnect()) it makes no transport call and
\* leaves state, handle and stream id as they were.
C11_DisconnectIdempotent ==
    last.op = "disconnect"
    => /\ connectionState = DISCONNECTED
       /\ livechat = 0
       /\ videoId = Null
       /\ trace = IF last.held # 0
                  THEN <<[call |-> "stop", h |-> last.held, delay |-> 0]>>
                  ELSE <<>>
       /\ last.held # 0 => ~handles[last.held].running

\* C11 witness: a disconnect() issued in `disconnected` with no handle,
\* after an earlier one has stopped a handle.
C11_Witness ==
    /\ last.op = "disconnect"
    /\ last.state = DISCONNECTED
    /\ last.held = 0
    /\ trace = <<>>
    /\ \E h \in Handles : handles[h].created /\ ~handles[h].running

\* C12: when getInfo resolves with an info that has no live chat, the
\* call ends in `error`, every `error` subscriber receives exactly one
\* error, the one naming the missing live chat, no transport call is made
\* and no handle is held.
C12_NoLiveChatEndsInError ==
    last.op = "infoWithoutChat"
    => /\ connectionState = ERROR
       /\ OnChannels(emitted, {"error"}) = Deliveries("error", NoLiveChatText)
       /\ NoLiveChatText # "Request failed"
       /\ trace = <<>>
       /\ ~handles[last.id].running
       /\ livechat = 0

\* C13: a new controller is `disconnected`; its first connect(), to a
\* stream with live chat, publishes connecting then connected and nothing
\* else, attaches one set of transport listeners and calls start() once,
\* in the segment that follows getInfo.
C13_FreshConnectSequence ==
    /\ last.op = "new" => connectionState = DISCONNECTED
    /\ (calls[1].pc = "done" /\ handles[1].created)
        => calls[1].states = <<CONNECTING, CONNECTED>>
    /\ (last.id = 1 /\ last.op = "connect")
        => /\ trace = <<>>
           /\ emitted = Deliveries("state", CONNECTING)
    /\ (last.id = 1 /\ last.op = "createResolved")
        => (trace = <<>> /\ emitted = <<>>)
    /\ (last.id = 1 /\ last.op = "infoResolved")
        => /\ trace = <<[call |-> "start", h |-> 1, delay |-> 0]>>
           /\ handles[1].attached = 1
           /\ emitted = Deliveries("state", CONNECTED)

\* C13 witness: the first connect() has connected with a `state`
\* subscriber present and no other connect() issued.
C13_Witness ==
    /\ last.op = "infoResolved"
    /\ last.id = 1
    /\ \A c \in Calls \ {1} : calls[c].pc = "idle"
    /\ listeners["state"] # <<>>
    /\ calls[1].states = <<CONNECTING, CONNECTED>>

\* C18: a chat-update event publishes the parsed message exactly once to
\* every `message` subscriber, in subscription order, when the parser
\* accepts its action and publishes nothing when the parser rejects it;
\* each event is published in its own segment, so in the order the
\* transport emitted them; the controller's state, handle and timers are
\* as before.
C18_AcceptedItemsPublishedOnce ==
    last.op = "chat-update"
    => \A action \in ChatActions :
         ActionName(action) = last.arg
         => /\ emitted = IF parseAction(action) # Null
                         THEN Deliveries("message", parseAction(action))
                         ELSE <<>>
            /\ connectionState = last.state
            /\ livechat = last.held
            /\ Len(timers) = last.pending

\* C18 witness: a text message from the held handle reached a `message`
\* subscriber in `connected`.
C18_Witness ==
    /\ last.op = "chat-update"
    /\ last.arg = "LiveChatTextMessage"
    /\ last.id = last.held
    /\ last.state = CONNECTED
    /\ emitted # <<>>

\* Every character of the text is whitespace (the empty text included).
Blank(text) == \A i \in 1..Len(Chars[text]) : Chars[text][i] \in Whitespace

FailureCodes == {"empty", "not_connected", "not_allowed", "send_failed"}

\* C14: sendMessage returns `empty` for a blank text in every connection
\* state and `not_connected` for a non-blank text in any state other than
\* `connected`, in both cases without calling the transport's send; it
\* calls the transport's send, once and on the held handle, only for a
\* non-blank text in `connected`.
C14_SendGuarded ==
    last.op = "sendMessage"
    => /\ Blank(last.arg)
           => (sends[last.id].pc = "done" /\ sends[last.id].result = "empty")
       /\ (~Blank(last.arg) /\ last.state # CONNECTED)
           => (sends[last.id].pc = "done" /\ sends[last.id].result = "not_connected")
       /\ sends[last.id].result \in {"empty", "not_connected"} => trace = <<>>
       /\ trace # <<>>
           => /\ ~Blank(last.arg)
              /\ last.state = CONNECTED
              /\ trace = <<[call |-> "sendMessage", h |-> last.held, delay |-> 0]>>

\* C14 witness: a whitespace-only text given in `connected` with a handle
\* held was answered `empty`.
C14_Witness ==
    /\ last.op = "sendMessage"
    /\ last.arg = "  "
    /\ last.state = CONNECTED
    /\ last.held # 0
    /\ sends[last.id].result = "empty"

\* C15: a segment of sendMessage that ends in a failure code leaves
\* connectionState, the held handle and the stream id as it found them
\* and invokes no `error` or `state` subscriber.
C15_FailedSendChangesNothing ==
    (/\ last.op \in {"sendMessage", "sendRejected"}
     /\ sends[last.id].result \in FailureCodes)
    => /\ connectionState = last.state
       /\ livechat = last.held
       /\ videoId = sends[last.id].stream
       /\ OnChannels(emitted, {"error", "state"}) = <<>>

\* C15 witness: the transport's send failed while `error` and `state`
\* subscribers were registered.
C15_Witness ==
    /\ last.op = "sendRejected"
    /\ sends[last.id].result = "send_failed"
    /\ last.state = CONNECTED
    /\ listeners["error"] # <<>>
    /\ listeners["state"] # <<>>

\* C16: a settled sendMessage has resolved with success or one of the
\* four failure codes; when the transport's send resolves the result is
\* success, and when it fails the result is `not_allowed` exactly when the
\* failure text contains "not allowed", "permission", "subscriber" or
\* "DimChatItemAction", and `send_failed` otherwise.
C16_SendResultCodes ==
    /\ \A s \in Sends :
         IF sends[s].pc = "done"
         THEN sends[s].result \in {"success"} \cup FailureCodes
         ELSE sends[s].result = ""
    /\ last.op = "sendResolved" => sends[last.id].result = "success"
    /\ last.op = "sendRejected"
        => sends[last.id].result =
             IF \E p \in {"not allowed", "permission", "subscriber", "DimChatItemAction"} :
                    Includes(last.arg, p)
             THEN "not_allowed"
             ELSE "send_failed"

\* C16 witness: a send refused because the chat is subscriber-only was
\* answered `not_allowed`.
C16_Witness ==
    /\ last.op = "sendRejected"
    /\ last.arg = "Chat is in subscriber only mode"
    /\ sends[last.id].result = "not_allowed"

\* C17: an emission invokes the callbacks that were registered on its
\* channel when it began, each registration once and in subscription
\* order, whatever the callbacks do (throw, on(), off()): at every step
\* the callbacks invoked so far are the first k registrations of the
\* start, and the emission ends (normally: a throw is caught and the walk
\* goes on) only when all of them have been invoked.
C17_EmissionSnapshot ==
    /\ emission.k <= Len(emission.snapshot)
    /\ emission.invoked = SubSeq(emission.snapshot, 1, emission.k)
    /\ ~emission.active => emission.invoked = emission.snapshot

\* C17 witness: an emission to two registrations has ended, one callback
\* threw, and the registrations of the channel are no longer the ones the
\* emission began with.
C17_Witness ==
    /\ ~emission.active
    /\ Len(emission.snapshot) = 2
    /\ emission.invoked = emission.snapshot
    /\ emission.caught > 0
    /\ listeners[emission.event] # emission.snapshot

\* The last n elements of a sequence.
LastOf(seq, n) == SubSeq(seq, Len(seq) - n + 1, Len(seq))

\* The elements of the message nodes on the surface, in document order.
SurfaceElements ==
    LET nodes == SelectSeq(renderer.container, LAMBDA n : n.kind = "message")
    IN  [i \in 1..Len(nodes) |-> nodes[i].element]

LogElements == [i \in 1..Len(renderer.messages) |-> renderer.messages[i].element]

\* C19: on a renderer constructed with bound m >= 1 on which neither
\* clear, setMaxMessages nor destroy has run, once more than m messages
\* have been added the log holds exactly the last m of them in arrival
\* order, their nodes are the message nodes of the surface, in that order,
\* and no node of an earlier message is on the surface.
C19_LogKeepsLastM ==
    (/\ rlast.fresh
     /\ renderer.maxMessages >= 1
     /\ Len(rlast.arrivals) > renderer.maxMessages)
    => /\ Len(renderer.messages) = renderer.maxMessages
       /\ renderer.messages = LastOf(rlast.arrivals, renderer.maxMessages)
       /\ SurfaceElements = LogElements
       /\ \A i \in 1..(Len(rlast.arrivals) - renderer.maxMessages) :
            ~Attached(renderer, rlast.arrivals[i].element)

\* C19 witness: m = 2 and four messages added, two of them evicted.
C19_Witness ==
    /\ rlast.fresh
    /\ rlast.op = "addMessage"
    /\ renderer.maxMessages = 2
    /\ Len(rlast.arrivals) = 4
    /\ Len(renderer.messages) = 2

\* C20: right after setMaxMessages(n), n >= 0, the log holds min(c, n)
\* records, c being the count before the call, namely the last ones of
\* the log before the call, and their nodes are the message nodes of the
\* surface; the log always holds the most recently added records in
\* arrival order and never more than the bound in force.
C20_SetMaxEnforcesAtOnce ==
    /\ rlast.op = "setMaxMessages"
        => /\ renderer.maxMessages = rlast.n
           /\ Len(renderer.messages) = Min(Len(rlast.before), rlast.n)
           /\ renderer.messages = LastOf(rlast.before, Min(Len(rlast.before), rlast.n))
           /\ ~renderer.destroyed => SurfaceElements = LogElements
    /\ renderer.messages = LastOf(rlast.arrivals, Len(renderer.messages))
    /\ Len(renderer.messages) <= renderer.maxMessages

\* C20 witness: setMaxMessages(1) on a log of three records kept the
\* newest one.
C20_Witness ==
    /\ rlast.op = "setMaxMessages"
    /\ rlast.n = 1
    /\ Len(rlast.before) = 3
    /\ Len(renderer.messages) = 1

\* The status banners on the surface, in document order.
Banners == SelectSeq(renderer.container, LAMBDA n : n.kind = "status")

\* C21 as stated: after a scroll event observed the surface more than
\* 50px from its end, addMessage leaves the scroll position unchanged;
\* after one that observed it within 50px, 50px itself included,
\* addMessage moves the scroll position to the end.
C21_AutoScrollBoundary ==
    (rlast.op = "addMessage" /\ ~rlast.threw /\ rlast.seen # -1)
    => IF rlast.seen > NearBottomPx
       THEN renderer.scrollTop = rlast.top
       ELSE FromEnd(renderer) = 0

\* C21 amended: after a scroll event observed the surface 50px or more
\* from its end, addMessage leaves the scroll position unchanged; after
\* one that observed it less than 50px from the end, or when no scroll
\* event has been observed yet, addMessage moves the scroll position to
\* the end.
C21_AutoScrollStrict ==
    (rlast.op = "addMessage" /\ ~rlast.threw)
    => IF rlast.seen >= NearBottomPx
       THEN renderer.scrollTop = rlast.top
       ELSE FromEnd(renderer) = 0

\* C21 witness: a message was added after the surface was observed
\* exactly 50px from its end, and the scroll position stayed.
C21_Witness ==
    /\ rlast.op = "addMessage"
    /\ ~rlast.threw
    /\ rlast.seen = NearBottomPx
    /\ renderer.scrollTop = rlast.top
    /\ FromEnd(renderer) > 0

\* C22: clear() on a live renderer leaves the log empty and the surface
\* without any node, message or banner, whatever preceded it (so a
\* second clear() leaves the same), and changes neither maxMessages nor
\* the auto-scroll flag.
C22_ClearEmptiesAll ==
    (rlast.op = "clear" /\ ~rlast.threw)
    => /\ renderer.messages = <<>>
       /\ renderer.container = <<>>
       /\ renderer.maxMessages = rlast.max
       /\ renderer.autoScroll = rlast.auto

\* C22 witness: clear() on a log of two records, with the bound lowered
\* by setMaxMessages and auto-scroll suspended.
C22_Witness ==
    /\ rlast.op = "clear"
    /\ ~rlast.threw
    /\ Len(rlast.before) = 2
    /\ rlast.max = 2
    /\ ~rlast.auto
    /\ renderer.container = <<>>

\* C23: the surface never holds more than one status banner; right after
\* showStatus on a live renderer it holds exactly one, the last node of
\* the surface, with the text and kind given; right after clearStatus it
\* holds none.
C23_OneStatusBanner ==
    /\ Len(Banners) <= 1
    /\ (rlast.op = "showStatus" /\ ~rlast.threw)
        => /\ Len(Banners) = 1
           /\ Banners[1].text = rlast.arg[1]
           /\ Banners[1].id = rlast.arg[2]
           /\ renderer.container[Len(renderer.container)] = Banners[1]
    /\ (rlast.op = "clearStatus" /\ ~rlast.threw) => Banners = <<>>

\* C23 witness: a second showStatus replaced the banner of the first
\* (both elements created so far were banners) with another text.
C23_Witness ==
    /\ rlast.op = "showStatus"
    /\ ~rlast.threw
    /\ renderer.created = 2
    /\ rlast.arrivals = <<>>
    /\ rlast.fresh
    /\ Len(Banners) = 1
    /\ Banners[1].text = "Failed to connect"

\* C24: destroy() detaches the scroll handler and leaves the log and the
\* surface empty, and never throws, a second destroy() included.
C24_DestroyIdempotent ==
    rlast.op = "destroy"
    => /\ ~rlast.threw
       /\ ~renderer.scrollHandler
       /\ renderer.messages = <<>>
       /\ renderer.container = <<>>

\* The item of the raw event, and the Message parsed from it.
RawItem == rawEvent.action.item
ParsedMessage == parsed.message

\* A list is absent, null, or an array of objects.
ListOfObjects(v) ==
    \/ v.t \in {"undefined", "null"}
    \/ /\ v.t = "array"
       /\ \A i \in 1..Len(v.items) : v.items[i].t = "object"

\* The optional fields of the item are absent, null, or of the shape the
\* transport documents: lists are arrays of objects, tooltips and titles
\* are strings.
DocumentedShape(item) ==
    /\ item.author.t = "object"
       => /\ ListOfObjects(item.author.badges)
          /\ item.author.badges.t = "array"
             => \A i \in 1..Len(item.author.badges.items) :
                  item.author.badges.items[i].tooltip.t \in {"undefined", "string"}
    /\ item.header.t = "object"
       => /\ ListOfObjects(item.header.author_badges)
          /\ item.header.author_badges.t = "array"
             => \A i \in 1..Len(item.header.author_badges.items) :
                  item.header.author_badges.items[i].tooltip.t \in {"undefined", "string"}
    /\ item.message.t = "object" => ListOfObjects(item.message.runs)
    /\ ListOfObjects(item.before_content_buttons)
    /\ item.before_content_buttons.t = "array"
       => \A i \in 1..Len(item.before_content_buttons.items) :
            LET button == item.before_content_buttons.items[i]
            IN  /\ button.title.t \in {"undefined", "string"}
                /\ button.accessibility_text.t \in {"undefined", "string"}
                /\ button.tooltip.t \in {"undefined", "string"}

SixHexDigits(low) ==
    HexDigits[((low \div 1048576) % 16) + 1] \o HexDigits[((low \div 65536) % 16) + 1]
    \o HexDigits[((low \div 4096) % 16) + 1] \o HexDigits[((low \div 256) % 16) + 1]
    \o HexDigits[((low \div 16) % 16) + 1] \o HexDigits[(low % 16) + 1]

\* The color code a paid item carries: header_background_color of a paid
\* message, background_color of a paid sticker.
ColorCodeOf(item) ==
    IF item.type = "LiveChatPaidMessage" THEN item.header_background_color
    ELSE item.background_color

\* C26: the color of a paid message or paid sticker is '#' and the six
\* lowercase hex digits of the low 24 bits of its numeric color code,
\* whatever 32-bit number the code is, and #1565C0 when the code is absent
\* or not a number.
C26_ColorIsSixHexDigits ==
    (parsed.state = "message" /\ ParsedMessage.type \in {"paid", "sticker"})
    => ParsedMessage.paidInfo.color =
         IF ColorCodeOf(RawItem).t = "number"
         THEN "#" \o SixHexDigits(ColorCodeOf(RawItem).low)
         ELSE "#1565C0"

\* C27: a Message has a non-empty id, the item's id when it has one and a
\* generated one otherwise, and the type that corresponds to the item's
\* subtype.
C27_IdAndType ==
    parsed.state = "message"
    => /\ ParsedMessage.id # ""
       /\ RawItem.id # "" => ParsedMessage.id = RawItem.id
       /\ RawItem.id = ""
          => ParsedMessage.id \in {"msg_1700000000_", "msg_1700000000_k3f9x2a1b"}
       /\ ParsedMessage.type =
            CASE RawItem.type = "LiveChatTextMessage" -> "text"
              [] RawItem.type = "LiveChatPaidMessage" -> "paid"
              [] RawItem.type = "LiveChatPaidSticker" -> "sticker"
              [] RawItem.type = "LiveChatMembershipItem" -> "membership"
              [] RawItem.type = "LiveChatSponsorshipsGiftPurchaseAnnouncement" ->
                   "gift_purchase"
              [] RawItem.type = "LiveChatSponsorshipsGiftRedemptionAnnouncement" ->
                   "gift_redemption"

\* C27 witness: a paid sticker without id got a generated id, Math.random()
\* having yielded no digit.
C27_Witness ==
    /\ parsed.state = "message"
    /\ RawItem.type = "LiveChatPaidSticker"
    /\ RawItem.id = ""
    /\ ParsedMessage.id = "msg_1700000000_"
    /\ ParsedMessage.type = "sticker"

\* The types of a sequence of badges, and the URLs of its custom badges.
TypesOf(badges) == [i \in 1..Len(badges) |-> badges[i].type]
UrlsOf(badges) == [i \in 1..Len(badges) |-> badges[i].url]

\* The flags of the author the item is parsed with, in the order owner,
\* moderator, verified; none is set when there is no author.
FlagSet(item, i) ==
    /\ SourceAuthor(item).t = "object"
    /\ Truthy(<<SourceAuthor(item).is_owner, SourceAuthor(item).is_moderator,
                SourceAuthor(item).is_verified>>[i])

\* The source badges of that author that carry an image.
SourceCustomBadges(item) ==
    IF SourceAuthor(item).t = "object" /\ SourceAuthor(item).badges.t = "array"
    THEN SelectSeq(SourceAuthor(item).badges.items,
                   LAMBDA badge : \E i \in 1..Len(badge.urls) : badge.urls[i] # "")
    ELSE <<>>

\* C28: the badges of a Message are the built-in badges owner, moderator,
\* verified, in this order and each present exactly when the author's flag
\* is set, followed by one custom badge for every source badge that
\* carries an image, in source order and with duplicates kept.
C28_BadgeOrder ==
    parsed.state = "message"
    => LET badges == ParsedMessage.badges
           builtIn == SelectSeq(<<1, 2, 3>>, LAMBDA i : FlagSet(RawItem, i))
           k == Len(builtIn)
           custom == SourceCustomBadges(RawItem)
       IN  /\ Len(badges) = k + Len(custom)
           /\ TypesOf(SubSeq(badges, 1, k))
                = [i \in 1..k |-> <<"owner", "moderator", "verified">>[builtIn[i]]]
           /\ \A i \in 1..Len(custom) :
                /\ badges[k + i].type = "custom"
                /\ badges[k + i].url \in {custom[i].urls[j] : j \in 1..Len(custom[i].urls)}

\* C28 witness: an author with only the moderator flag set and the same
\* member badge twice gets the moderator badge and two custom badges.
C28_Witness ==
    /\ parsed.state = "message"
    /\ RawItem.type = "LiveChatPaidMessage"
    /\ RawItem.author.t = "object"
    /\ RawItem.author.badges = Arr(<<MemberBadge, MemberBadge>>)
    /\ ~Truthy(RawItem.author.is_owner)
    /\ ~Truthy(RawItem.author.is_verified)
    /\ TypesOf(ParsedMessage.badges) = <<"moderator", "custom", "custom">>
    /\ UrlsOf(ParsedMessage.badges) = <<"", "m.png", "m.png">>

\* C29: the author of a Message, of an item without author too, has the
\* seven fields name, channelId, avatarUrl, isOwner, isModerator, isMember
\* and isVerified, none of them null or undefined, the four role fields
\* booleans.
C29_AuthorFieldsPresent ==
    parsed.state = "message"
    => /\ \A f \in {"name", "channelId", "avatarUrl", "isOwner", "isModerator",
                    "isMember", "isVerified"} :
            /\ f \in DOMAIN ParsedMessage.author
            /\ ParsedMessage.author[f].t \notin {"undefined", "null"}
       /\ \A f \in {"isOwner", "isModerator", "isMember", "isVerified"} :
            /\ f \in DOMAIN ParsedMessage.author
            /\ ParsedMessage.author[f].t = "boolean"

\* C30: parseAction does not throw for an item of a handled subtype,
\* whatever the shape of its optional fields: it returns a Message.
C30_NeverThrows ==
    (/\ parsed.state # "pending"
     /\ rawEvent.action.kind = "AddChatItemAction"
     /\ RawItem.t = "object"
     /\ RawItem.type \in HandledTypes)
    => parsed.state = "message"

\* C33: when connect(B) is issued while connect(A) still awaits its
\* lookup and both lookups resolve with a live chat, then once the later
\* of the two has settled the held transport handle is the one obtained
\* for B and the recorded stream id is B, whichever lookup resolved first.
C33_LatestRequestWins ==
    (/\ overlapped
     /\ calls[1].pc = "done" /\ calls[2].pc = "done"
     /\ handles[1].created /\ handles[2].created
     /\ calls[1].videoId # calls[2].videoId
     /\ last.op = "infoResolved")
    => /\ livechat = 2
       /\ videoId = calls[2].videoId

\* C34: whenever the controller is `connected` it holds a transport
\* handle: after every segment, and at every call of a subscriber callback
\* inside one, the callbacks calling connect() and disconnect() themselves.
C34_ConnectedHoldsHandle ==
    /\ connectionState = CONNECTED => livechat # 0
    /\ ~observed

\* C34 witness: a callback called disconnect() while `connected` was being
\* published to it, and the segment ended `disconnected` without a handle.
C34_Witness ==
    /\ reaction = [event |-> "state", data |-> CONNECTED, call |-> "disconnect"]
    /\ last.op = "infoResolved"
    /\ <<CONNECTED, DISCONNECTED>> =
         [i \in 1..Len(emitted) |-> emitted[i].data]
    /\ connectionState = DISCONNECTED
    /\ livechat = 0

\* C35: after every sequence of addMessage, setMaxMessages(n) with
\* n >= 0, clear and the other renderer operations, the message nodes on
\* the surface are the elements recorded in the log, in the same order.
C35_SurfaceMatchesLog == SurfaceElements = LogElements

\* C35 witness: an addMessage on a full log evicted the oldest record
\* after an earlier clear or setMaxMessages, with a status banner on the
\* surface.
C35_Witness ==
    /\ rlast.op = "addMessage"
    /\ ~rlast.fresh
    /\ Len(rlast.before) = 2
    /\ rlast.max = 2
    /\ Len(renderer.messages) = 2
    /\ renderer.messages[1] = rlast.before[2]
    /\ Banners # <<>>

\* C36: the eviction loop terminates for every bound: whenever
\* setMaxMessages(n) or addMessage has entered _enforceMaxMessages, the
\* loop eventually returns, for negative n as well.
C36_EnforcementTerminates == (evicting # "idle") ~> (evicting = "idle")

\* C31: every string of a message is escaped for the place it is
\* interpolated into: the markup written for it does not end the element
\* content, attribute value or script string it stands in.
C31_EscapedForContext ==
    escaping.rendered => ~EndsContext(escaping.context, escaping.markup)

\* C32: after any sequence of overlay toggles and navigations the
\* singleton manager carries at most one `message`, one `state` and one
\* `error` listener installed by connectChat, and a message it publishes
\* while there is a renderer results in exactly one addMessage call.
C32_OneListenerEach ==
    /\ \A ch \in {"message", "state", "error"} : Len(listeners[ch]) <= 1
    /\ (last.op = "chat-update" /\ page.messageRenderer) => page.addCalls = 1

\* C37: a value written by setSetting is not lost: once no save timer is
\* pending and no loadSettings call is in flight, the storage area holds
\* the value set last for every key that was set, also when loadSettings
\* ran in between; and the setSetting calls of one debounce window cause
\* one storage write.
C37_SavedValueNotLost ==
    /\ (settings.sets > 0 /\ settings.pending = 0 /\ ~settings.loading)
         => /\ settings.stored.present
            /\ \A k \in SettingKeys :
                 settings.wanted[k] # 0 => settings.stored.values[k] = settings.wanted[k]
    /\ settings.writes <= settings.windows

\* C38: an init() session invalidated by cleanup() while it was awaiting
\* never afterwards sets isInitialized, inserts the toggle button or
\* toggles the overlay; a session does so only while it holds the current
\* init token.
C38_InvalidatedSessionInert ==
    /\ ~boot.staleAct
    /\ boot.isInitialized =>
         /\ boot.currentInitToken # 0
         /\ ~boot.sessions[boot.currentInitToken].invalidated

\* C38 witness: a session invalidated while awaiting has run to its end,
\* and the session that followed the navigation has initialised the page
\* and inserted the button.
C38_Witness ==
    /\ boot.sessions[1].invalidated
    /\ boot.sessions[1].pc = "done"
    /\ ~boot.sessions[1].retry
    /\ boot.currentInitToken = 2
    /\ boot.isInitialized
    /\ boot.button

\* C39: at most one settings panel element is attached to the video
\* player at any time, also when a second open() or a second click on the
\* settings button comes while the first open() awaits createPanel.
C39_OnePanelAttached == Cardinality(panel.attached) <= 1

====
